---- MODULE Spec2Model ----
(***************************************************************************)
(* A model of the smartclaw routing gateway: the persisted registry        *)
(* (models, capabilities, policy, rate limits, budget ledger, health log), *)
(* the candidate selector, the three-tier router and the retrying          *)
(* dispatcher.  Text (the policy's location order, error messages) is a    *)
(* sequence of one-character strings; SQL NULL / JS null is the empty      *)
(* tuple and a present value v is <<v>>.  Prices are in hundredths of a    *)
(* USD per million tokens, times are whole seconds.                        *)
(***************************************************************************)
EXTENDS Integers, Sequences, FiniteSets, TLC

VARIABLES
    models,                 \* table models: model_id -> row
    provider_rate_limits,   \* table provider_rate_limits: provider -> row
    routing_policy,         \* table routing_policy, the row with id = 1
    budget_tracking,        \* table budget_tracking: <<period_type, period_key>> -> row
    model_health_log,       \* table model_health_log, rows in id order
    routing_rules,          \* table routing_rules: rule_id -> row
    rulesCache,             \* tier1-rules' module state: cachedRules, cacheTimestamp
    now,                    \* the wall clock, in seconds
    sel,                    \* the last selectCandidates call: its criteria and result
    req,                    \* the request being routed (routeRequest's locals)
    disp,                   \* the routeWithRetry call in progress (its locals)
    request_log,            \* table request_log, rows in id order
    http,                   \* the POST /v1/chat/completions handlers past routeWithRetry
    hc,                     \* the health-check loop: running flag and pending probes
    wire,                   \* the clients' connections and what was written to them
    stderr,                 \* the lines written to the process's standard error
    sse                     \* the SSE parser reading one upstream response body

vars == <<models, provider_rate_limits, routing_policy, budget_tracking,
          model_health_log, routing_rules, rulesCache, now, sel, req, disp,
          request_log, http, hc, wire, stderr, sse>>

ruleVars == <<routing_rules, rulesCache>>

serveVars == <<request_log, http, hc, wire, stderr, sse>>

-----------------------------------------------------------------------------
\* Nullable values and text

Null == <<>>
Some(v) == <<v>>
IsNull(x) == x = <<>>
Val(x) == x[1]

\* no handler has a client yet; the connection of the request that is being
\* routed, or of the next to arrive, is open
NoWire == [open |-> TRUE, out |-> <<>>]

Whitespace == {" ", "\t", "\n", "\r"}

RECURSIVE splitAcc(_, _, _, _, _)
splitAcc(s, sep, i, cur, out) ==
    IF i > Len(s) THEN Append(out, cur)
    ELSE IF s[i] = sep THEN splitAcc(s, sep, i + 1, <<>>, Append(out, cur))
    ELSE splitAcc(s, sep, i + 1, Append(cur, s[i]), out)

\* String.prototype.split with a one-character separator
split(s, sep) == splitAcc(s, sep, 1, <<>>, <<>>)

RECURSIVE trimStart(_)
trimStart(s) ==
    IF s # <<>> /\ Head(s) \in Whitespace THEN trimStart(Tail(s)) ELSE s

RECURSIVE trimEnd(_)
trimEnd(s) ==
    IF s # <<>> /\ s[Len(s)] \in Whitespace
    THEN trimEnd(SubSeq(s, 1, Len(s) - 1)) ELSE s

\* String.prototype.trim
trim(s) == trimEnd(trimStart(s))

\* Array.prototype.indexOf: the 0-based index of the first equal element, or -1
indexOf(list, x) ==
    IF \E i \in 1..Len(list) : list[i] = x
    THEN (CHOOSE i \in 1..Len(list) :
              list[i] = x /\ \A j \in 1..(i - 1) : list[j] # x) - 1
    ELSE -1

\* The characters of the three location names the schema admits
LocationText ==
    [local |-> <<"l", "o", "c", "a", "l">>,
     lan   |-> <<"l", "a", "n">>,
     cloud |-> <<"c", "l", "o", "u", "d">>]

Locations == {"local", "lan", "cloud"}

-----------------------------------------------------------------------------
\* The registry as the seed migration leaves it (five of its nine models)

ModelIds ==
    {"local/deepseek-r1-1.5b", "lan/mbp-m4-32b", "lan/dgx-spark-70b",
     "anthropic/claude-sonnet", "openai/gpt-4o"}

\* rowid order of table models (the order of the seed's INSERTs)
TableOrder ==
    <<"local/deepseek-r1-1.5b", "lan/mbp-m4-32b", "lan/dgx-spark-70b",
      "anthropic/claude-sonnet", "openai/gpt-4o">>

\* model_id order, the order idx_cap_lookup(capability, model_id) yields
IndexOrder ==
    <<"anthropic/claude-sonnet", "lan/dgx-spark-70b", "lan/mbp-m4-32b",
      "local/deepseek-r1-1.5b", "openai/gpt-4o">>

ModelRow(id, prov, loc, fmt, q, ctx, cin, cout) ==
    [model_id |-> id, provider |-> prov, location |-> loc, api_format |-> fmt,
     quality_score |-> q, context_window |-> ctx,
     cost_input |-> cin, cost_output |-> cout,
     is_enabled |-> TRUE, is_healthy |-> TRUE, last_health_check |-> Null]

SeedModels ==
    [id \in ModelIds |->
        CASE id = "local/deepseek-r1-1.5b" ->
                ModelRow(id, "deepseek", "local", "openai-chat", 25, 32768, 0, 0)
          [] id = "lan/mbp-m4-32b" ->
                ModelRow(id, "deepseek", "lan", "openai-chat", 68, 65536, 0, 0)
          [] id = "lan/dgx-spark-70b" ->
                ModelRow(id, "deepseek", "lan", "openai-chat", 78, 65536, 0, 0)
          [] id = "anthropic/claude-sonnet" ->
                ModelRow(id, "anthropic", "cloud", "anthropic", 82, 200000, 300, 1500)
          [] id = "openai/gpt-4o" ->
                ModelRow(id, "openai", "cloud", "openai-chat", 76, 128000, 250, 1000)]

\* table model_capabilities (the seed's rows for these models, three capabilities)
model_capabilities ==
    {<<"local/deepseek-r1-1.5b", "conversation">>,
     <<"lan/mbp-m4-32b", "coding">>,
     <<"lan/mbp-m4-32b", "conversation">>,
     <<"lan/dgx-spark-70b", "coding">>,
     <<"lan/dgx-spark-70b", "complex_logic">>,
     <<"lan/dgx-spark-70b", "conversation">>,
     <<"anthropic/claude-sonnet", "coding">>,
     <<"anthropic/claude-sonnet", "complex_logic">>,
     <<"openai/gpt-4o", "coding">>}

\* the providers the seed gives a provider_rate_limits row
Providers == {"anthropic", "openai", "deepseek"}

RateLimitRow(limited, since, retry) ==
    [is_rate_limited |-> limited, limited_since |-> since, retry_after |-> retry]

SeedRateLimits == [p \in Providers |-> RateLimitRow(FALSE, Null, Null)]

\* the seed's policy row: 'local,lan,cloud', tolerance 5, budgets 10 and 200
SeedLocationOrder ==
    <<"l", "o", "c", "a", "l", ",", "l", "a", "n", ",", "c", "l", "o", "u", "d">>

PolicyRow(order, tol, daily, monthly, fallback) ==
    [prefer_location_order |-> order, quality_tolerance |-> tol,
     budget_daily_usd |-> daily, budget_monthly_usd |-> monthly,
     fallback_model_id |-> fallback]

SeedPolicy ==
    PolicyRow(SeedLocationOrder, 5, 10, 200, Some("anthropic/claude-sonnet"))

-----------------------------------------------------------------------------
\* The clock and the ledger's period keys

SecondsPerDay == 100
DaysPerMonth == 2

\* new Date().toISOString().slice(0, 10): the date as <<month, day>>
isoDate(t) == <<(t \div SecondsPerDay) \div DaysPerMonth, t \div SecondsPerDay>>

\* today.slice(0, 7): the year-month prefix of the date
isoMonth(today) == SubSeq(today, 1, 1)

LedgerRow(spend, count) == [total_spend |-> spend, request_count |-> count]

\* isBudgetExceeded with > in place of >=
isBudgetExceeded_StrictlyGreater(policy, ledger, t) ==
    LET today == isoDate(t)
        month == isoMonth(today)
    IN  \/ /\ <<"daily", today>> \in DOMAIN ledger
           /\ ledger[<<"daily", today>>].total_spend > policy.budget_daily_usd
        \/ /\ <<"monthly", month>> \in DOMAIN ledger
           /\ ledger[<<"monthly", month>>].total_spend > policy.budget_monthly_usd

\* isBudgetExceeded(db)
isBudgetExceeded(policy, ledger, t) ==
    LET today == isoDate(t)
        month == isoMonth(today)
        daily == IF <<"daily", today>> \in DOMAIN ledger
                 THEN Some(ledger[<<"daily", today>>]) ELSE Null
        monthly == IF <<"monthly", month>> \in DOMAIN ledger
                   THEN Some(ledger[<<"monthly", month>>]) ELSE Null
    IN  IF ~IsNull(daily) /\ Val(daily).total_spend >= policy.budget_daily_usd
        THEN TRUE
        ELSE IF ~IsNull(monthly)
                /\ Val(monthly).total_spend >= policy.budget_monthly_usd
        THEN TRUE
        ELSE FALSE

-----------------------------------------------------------------------------
\* Candidate selection (src/router/candidate-select.ts)

Criteria(floor, cap, sensitive, tokens) ==
    [quality_floor |-> floor, required_capability |-> cap,
     sensitive |-> sensitive, estimated_tokens |-> tokens]

RankedCandidate(m, r) == [model |-> m, score |-> m.quality_score, rank |-> r]

\* clearExpiredRateLimits whose WHERE clause does not look at retry_after
clearExpiredRateLimits_ClearsAll(limits, t) ==
    [p \in DOMAIN limits |->
        IF limits[p].is_rate_limited
        THEN RateLimitRow(FALSE, Null, Null)
        ELSE limits[p]]

\* clearExpiredRateLimits(db): the UPDATE's WHERE clause decides row by row
clearExpiredRateLimits(limits, t) ==
    [p \in DOMAIN limits |->
        IF /\ limits[p].is_rate_limited
           /\ ~IsNull(limits[p].retry_after)
           /\ Val(limits[p].retry_after) <= t
        THEN RateLimitRow(FALSE, Null, Null)
        ELSE limits[p]]

\* queryEnabledHealthy with the is_healthy = 1 condition left out of the SELECTs
queryEnabledHealthy_IgnoresHealth(rows, scan, capability) ==
    LET all == [i \in 1..Len(scan) |-> rows[scan[i]]]
    IN  IF ~IsNull(capability)
        THEN SelectSeq(all, LAMBDA m :
                 /\ m.is_enabled
                 /\ <<m.model_id, Val(capability)>> \in model_capabilities)
        ELSE SelectSeq(all, LAMBDA m : m.is_enabled)

\* The two SELECTs of selectCandidates: the rows come in scan order, joined
\* with model_capabilities when a capability is required
queryEnabledHealthy(rows, scan, capability) ==
    LET all == [i \in 1..Len(scan) |-> rows[scan[i]]]
    IN  IF ~IsNull(capability)
        THEN SelectSeq(all, LAMBDA m :
                 /\ m.is_enabled /\ m.is_healthy
                 /\ <<m.model_id, Val(capability)>> \in model_capabilities)
        ELSE SelectSeq(all, LAMBDA m : m.is_enabled /\ m.is_healthy)

\* SELECT provider FROM provider_rate_limits WHERE is_rate_limited = 1
rateLimitedProviders(limits) ==
    {p \in DOMAIN limits : limits[p].is_rate_limited}

\* applyQualityTolerance that adds the tolerated models to the strict matches
applyQualityTolerance_Additive(candidates, qualityFloor, tolerance) ==
    SelectSeq(candidates, LAMBDA m :
        \/ m.quality_score >= qualityFloor
        \/ /\ m.quality_score >= qualityFloor - tolerance
           /\ m.cost_output = 0)

\* applyQualityTolerance(candidates, qualityFloor, tolerance)
applyQualityTolerance(candidates, qualityFloor, tolerance) ==
    LET strict == SelectSeq(candidates, LAMBDA m : m.quality_score >= qualityFloor)
        soft == SelectSeq(candidates, LAMBDA m :
                    /\ m.quality_score >= qualityFloor - tolerance
                    /\ m.cost_output = 0)
    IN  IF Len(strict) > 0 THEN strict
        ELSE IF Len(soft) > 0 THEN soft
        ELSE <<>>

\* policy.prefer_location_order.split(',').map(s => s.trim())
parseLocationOrder(text) ==
    LET parts == split(text, ",")
    IN  [i \in 1..Len(parts) |-> trim(parts[i])]

\* the pre-computed sort key of a model
sortKey(m, locationOrder) ==
    [loc |-> indexOf(locationOrder, LocationText[m.location]),
     cost |-> m.cost_input + m.cost_output]

\* compareModels with the quality tiebreak ascending
compareModels_QualityAscending(a, b, locationOrder) ==
    LET ka == sortKey(a, locationOrder)
        kb == sortKey(b, locationOrder)
    IN  IF ka.loc # kb.loc THEN ka.loc - kb.loc
        ELSE IF ka.cost # kb.cost THEN ka.cost - kb.cost
        ELSE a.quality_score - b.quality_score

\* the comparator handed to models.sort
compareModels(a, b, locationOrder) ==
    LET ka == sortKey(a, locationOrder)
        kb == sortKey(b, locationOrder)
    IN  IF ka.loc # kb.loc THEN ka.loc - kb.loc
        ELSE IF ka.cost # kb.cost THEN ka.cost - kb.cost
        ELSE b.quality_score - a.quality_score

RECURSIVE insertStable(_, _, _)
insertStable(sorted, x, locationOrder) ==
    IF sorted = <<>> THEN <<x>>
    ELSE IF compareModels(sorted[Len(sorted)], x, locationOrder) > 0
    THEN Append(insertStable(SubSeq(sorted, 1, Len(sorted) - 1), x, locationOrder),
                sorted[Len(sorted)])
    ELSE Append(sorted, x)

RECURSIVE sortFrom(_, _, _, _)
sortFrom(list, i, sorted, locationOrder) ==
    IF i > Len(list) THEN sorted
    ELSE sortFrom(list, i + 1, insertStable(sorted, list[i], locationOrder),
                  locationOrder)

\* Array.prototype.sort with compareModels: a stable sort
sortModels(list, locationOrder) == sortFrom(list, 1, <<>>, locationOrder)

\* hardFilters with the budget filter left out
hardFilters_NoBudgetFilter(list, limited, criteria, budgetExceeded) ==
    LET f1 == SelectSeq(list, LAMBDA m : m.provider \notin limited)
        f2 == SelectSeq(f1, LAMBDA m : m.context_window >= criteria.estimated_tokens)
    IN  IF criteria.sensitive
        THEN SelectSeq(f2, LAMBDA m : m.location # "cloud") ELSE f2

\* the hard filters of selectCandidates, in the order the code applies them
hardFilters(list, limited, criteria, budgetExceeded) ==
    LET f1 == SelectSeq(list, LAMBDA m : m.provider \notin limited)
        f2 == SelectSeq(f1, LAMBDA m : m.context_window >= criteria.estimated_tokens)
        f3 == IF criteria.sensitive
              THEN SelectSeq(f2, LAMBDA m : m.location # "cloud") ELSE f2
        f4 == IF budgetExceeded
              THEN SelectSeq(f3, LAMBDA m : m.location # "cloud") ELSE f3
    IN  f4

\* rankModels that ranks by the array index
rankModels_FromZero(list) == [i \in 1..Len(list) |-> RankedCandidate(list[i], i - 1)]

\* the ranked result: models.map((model, index) => ({model, score, rank}))
rankModels(list) == [i \in 1..Len(list) |-> RankedCandidate(list[i], i)]

\* selectCandidates(db, criteria): the returned list.  limits is the
\* rate-limit table after clearExpiredRateLimits, budgetExceeded the gate
\* read before it, scan the row order of the SELECT.
selectCandidates(rows, limits, policy, budgetExceeded, scan, criteria) ==
    LET locationOrder == parseLocationOrder(policy.prefer_location_order)
        base == queryEnabledHealthy(rows, scan, criteria.required_capability)
        kept == hardFilters(base, rateLimitedProviders(limits), criteria,
                            budgetExceeded)
        chosen == applyQualityTolerance(kept, criteria.quality_floor,
                                        policy.quality_tolerance)
    IN  rankModels(sortModels(chosen, locationOrder))

\* the row orders a SELECT without ORDER BY may come back in
ScanOrders(capability) ==
    IF IsNull(capability) THEN {TableOrder} ELSE {TableOrder, IndexOrder}

\* One call of selectCandidates: it clears the expired limits in the store
\* and returns the ranked list
SelectCall(criteria) ==
    /\ IsNull(sel)
    /\ \E scan \in ScanOrders(criteria.required_capability) :
         LET budgetExceeded == isBudgetExceeded(routing_policy, budget_tracking, now)
             limits == clearExpiredRateLimits(provider_rate_limits, now)
         IN  /\ provider_rate_limits' = limits
             /\ sel' = Some([criteria |-> criteria,
                             budgetExceeded |-> budgetExceeded,
                             limitsBefore |-> provider_rate_limits,
                             result |-> selectCandidates(models, limits, routing_policy,
                                                         budgetExceeded, scan, criteria)])
    /\ UNCHANGED <<serveVars, models, routing_policy, budget_tracking, model_health_log,
                   ruleVars, now, req, disp>>

-----------------------------------------------------------------------------
\* Requests and their routing metadata (src/router/router.ts, src/types.ts)

UpperCase ==
    <<"A", "B", "C", "D", "E", "F", "G", "H", "I", "J", "K", "L", "M",
      "N", "O", "P", "Q", "R", "S", "T", "U", "V", "W", "X", "Y", "Z">>

LowerCase ==
    <<"a", "b", "c", "d", "e", "f", "g", "h", "i", "j", "k", "l", "m",
      "n", "o", "p", "q", "r", "s", "t", "u", "v", "w", "x", "y", "z">>

Digits == {"0", "1", "2", "3", "4", "5", "6", "7", "8", "9"}

\* the characters the regex class \w matches
WordChars ==
    {UpperCase[i] : i \in 1..26} \cup {LowerCase[i] : i \in 1..26}
        \cup Digits \cup {"_"}

\* String.prototype.toLowerCase on one character
lowerChar(c) ==
    IF \E i \in 1..26 : UpperCase[i] = c
    THEN LowerCase[CHOOSE i \in 1..26 : UpperCase[i] = c]
    ELSE c

\* String.prototype.toLowerCase
toLowerCase(s) == [i \in 1..Len(s) |-> lowerChar(s[i])]

\* A string content: the characters chars followed by filler more characters
\* "x" (a long text is kept as its head and the length of its tail)
Text(chars, filler) == [kind |-> "string", chars |-> chars, filler |-> filler]

\* An array content (a multimodal message) of count parts
Parts(count) == [kind |-> "array", count |-> count]

EmptyText == Text(<<>>, 0)

\* content.length, of a string or of an array
length(content) ==
    IF content.kind = "string" THEN Len(content.chars) + content.filler
    ELSE content.count

\* String.prototype.slice(0, n)
slice(text, n) ==
    IF n <= Len(text.chars) THEN Text(SubSeq(text.chars, 1, n), 0)
    ELSE IF n - Len(text.chars) <= text.filler
         THEN Text(text.chars, n - Len(text.chars))
         ELSE text

\* the i-th character of a string (1-based); Null past its end
charAt(text, i) ==
    IF i <= Len(text.chars) THEN Some(text.chars[i])
    ELSE IF i <= length(text) THEN Some("x")
    ELSE Null

Message(role, content) == [role |-> role, content |-> content]

ChatRequest(messages, source, channel) ==
    [messages |-> messages, source |-> source, channel |-> channel]

\* [...messages].reverse().find(m => m.role === 'user')?.content ?? ''
lastUserContent(messages) ==
    IF \E i \in 1..Len(messages) : messages[i].role = "user"
    THEN messages[CHOOSE i \in 1..Len(messages) :
                      /\ messages[i].role = "user"
                      /\ \A j \in (i + 1)..Len(messages) : messages[j].role # "user"].content
    ELSE EmptyText

RECURSIVE totalChars(_)
totalChars(messages) ==
    IF messages = <<>> THEN 0
    ELSE length(Head(messages).content) + totalChars(Tail(messages))

\* Math.ceil(n / 4) for a non-negative integer n
ceilQuarter(n) == (n + 3) \div 4

\* Math.max
max(a, b) == IF a >= b THEN a ELSE b

\* extractMetadata(request)
extractMetadata(request) ==
    LET textPreview == lastUserContent(request.messages)
    IN  [text_preview |-> IF textPreview.kind = "string" THEN textPreview
                          ELSE EmptyText,
         estimated_tokens |-> max(ceilQuarter(totalChars(request.messages)), 100),
         has_media |-> \E i \in 1..Len(request.messages) :
                          request.messages[i].content.kind = "array",
         source |-> request.source,
         channel |-> request.channel]

-----------------------------------------------------------------------------
\* Tier 1: the rule table, its cache and the matcher (src/router/tier1-rules.ts)

MAX_REGEX_INPUT_LENGTH == 500
RULES_CACHE_TTL_MS == 5000

TargetActions == {"route", "route_self", "classify", "reject", "queue"}

RoutingRule(id, priority, source, pattern, media, tokenMax, target, action) ==
    [rule_id |-> id, priority |-> priority, is_enabled |-> TRUE,
     match_source |-> source, match_channel |-> Null, match_pattern |-> pattern,
     match_has_media |-> media, match_token_max |-> tokenMax,
     target_model_id |-> target, target_action |-> action]

\* the seed's pattern of the rule 'Slash status -> self', and a text that
\* new RegExp rejects
SlashStatusPattern == "^/status\\b"
InvalidPattern == "("

\* a pattern an operator may add for long texts: 501 characters or more on
\* one line
LongTextPattern == "^.{501,}$"

\* four of the seed's ten rules, under the rule_ids the INSERTs give them
SeedRules ==
    (1 :> RoutingRule(1, 10, Some("heartbeat"), Null, Null, Null,
                      Some("local/deepseek-r1-1.5b"), "route_self"))
    @@ (4 :> RoutingRule(4, 30, Null, Some(SlashStatusPattern), Null, Null,
                         Some("local/deepseek-r1-1.5b"), "route_self"))
    @@ (8 :> RoutingRule(8, 50, Null, Null, Some(1), Null, Null, "classify"))
    @@ (10 :> RoutingRule(10, 99, Null, Null, Null, Null, Null, "classify"))

\* new RegExp(pattern, 'i') does not throw
regExpCompiles(pattern) == pattern # InvalidPattern

SlashStatusChars == <<"/", "s", "t", "a", "t", "u", "s">>

\* new RegExp(pattern, 'i').test(preview), for the patterns of the rule table:
\* ^/status\b holds when the text starts with /status in any letter case and
\* the next character, if there is one, is not a word character
regexTest(pattern, preview) ==
    IF pattern = SlashStatusPattern
    THEN /\ length(preview) >= Len(SlashStatusChars)
         /\ \A i \in 1..Len(SlashStatusChars) :
               lowerChar(Val(charAt(preview, i))) = SlashStatusChars[i]
         /\ LET next == charAt(preview, Len(SlashStatusChars) + 1)
            IN  IsNull(next) \/ Val(next) \notin WordChars
    ELSE IF pattern = LongTextPattern
    THEN /\ length(preview) >= 501
         /\ \A i \in 1..Len(preview.chars) : preview.chars[i] # "\n"
    ELSE FALSE

\* ruleMatches(rule, metadata)
ruleMatches(rule, metadata) ==
    /\ ~IsNull(rule.match_source) => metadata.source = rule.match_source
    /\ ~IsNull(rule.match_channel) => metadata.channel = rule.match_channel
    /\ ~IsNull(rule.match_pattern) =>
          /\ regExpCompiles(Val(rule.match_pattern))
          /\ regexTest(Val(rule.match_pattern),
                       slice(metadata.text_preview, MAX_REGEX_INPUT_LENGTH))
    /\ ~IsNull(rule.match_has_media) =>
          metadata.has_media = (Val(rule.match_has_media) = 1)
    /\ ~IsNull(rule.match_token_max) =>
          metadata.estimated_tokens <= Val(rule.match_token_max)

\* ORDER BY priority ASC (rows of equal priority come in rule_id order, the
\* order of idx_rules_priority)
RECURSIVE orderByPriority(_)
orderByPriority(rows) ==
    IF rows = {} THEN <<>>
    ELSE LET first == CHOOSE r \in rows :
                         \A o \in rows :
                            \/ r.priority < o.priority
                            \/ r.priority = o.priority /\ r.rule_id <= o.rule_id
         IN  <<first>> \o orderByPriority(rows \ {first})

\* SELECT * FROM routing_rules WHERE is_enabled = 1 ORDER BY priority ASC
queryEnabledRules(rules) ==
    orderByPriority({rules[id] : id \in {i \in DOMAIN rules : rules[i].is_enabled}})

EmptyCache == [cachedRules |-> Null, cacheTimestamp |-> 0]

\* Date.now(), in milliseconds
dateNow(t) == t * 1000

\* loadRules that never looks at the age of the cache
loadRules_NeverExpires(cache, rules, t) ==
    IF ~IsNull(cache.cachedRules)
    THEN cache
    ELSE [cachedRules |-> Some(queryEnabledRules(rules)),
          cacheTimestamp |-> dateNow(t)]

\* loadRules(db): the module state it leaves; the list it returns is the
\* cachedRules of that state
loadRules(cache, rules, t) ==
    IF ~IsNull(cache.cachedRules)
       /\ dateNow(t) - cache.cacheTimestamp < RULES_CACHE_TTL_MS
    THEN cache
    ELSE [cachedRules |-> Some(queryEnabledRules(rules)),
          cacheTimestamp |-> dateNow(t)]

NoMatch == [matched |-> FALSE]

\* the loop of matchTier1Rules that keeps going after a match: the last rule
\* that matches wins
RECURSIVE firstMatch_LastWins(_, _)
firstMatch_LastWins(list, metadata) ==
    IF list = <<>> THEN NoMatch
    ELSE LET rest == firstMatch_LastWins(Tail(list), metadata)
         IN  IF rest.matched \/ ~ruleMatches(Head(list), metadata) THEN rest
             ELSE [matched |-> TRUE, rule |-> Head(list),
                   action |-> Head(list).target_action,
                   target_model_id |-> Head(list).target_model_id]

\* the loop of matchTier1Rules over the loaded list
RECURSIVE firstMatch(_, _)
firstMatch(list, metadata) ==
    IF list = <<>> THEN NoMatch
    ELSE IF ruleMatches(Head(list), metadata)
         THEN [matched |-> TRUE, rule |-> Head(list),
               action |-> Head(list).target_action,
               target_model_id |-> Head(list).target_model_id]
         ELSE firstMatch(Tail(list), metadata)

\* matchTier1Rules(db, metadata), given the cache loadRules left
matchTier1Rules(cache, metadata) == firstMatch(Val(cache.cachedRules), metadata)

-----------------------------------------------------------------------------
\* Tier 2: the classifier's reply and the criteria (src/router/tier2-classify.ts)

ClassificationResult(complexity, taskType, tokens, sensitive) ==
    [complexity |-> complexity, task_type |-> taskType,
     estimated_tokens |-> tokens, sensitive |-> sensitive]

DEFAULT_CLASSIFICATION == ClassificationResult("medium", "conversation", 1000, FALSE)

validComplexities == {"simple", "medium", "complex", "reasoning"}

validTaskTypes ==
    {"qa", "coding", "writing", "analysis", "extraction", "classification",
     "conversation", "tool_use", "math", "reasoning", "multi_step",
     "summarization"}

\* A JSON value with its JavaScript type; an absent field is Null
JsonString(v) == Some([type |-> "string", value |-> v])
JsonNumber(v) == Some([type |-> "number", value |-> v])
JsonBoolean(v) == Some([type |-> "boolean", value |-> v])

\* the object JSON.parse returns for the classifier's text
JsonObject(complexity, taskType, tokens, sensitive) ==
    [complexity |-> complexity, task_type |-> taskType,
     estimated_tokens |-> tokens, sensitive |-> sensitive]

hasType(field, type) == ~IsNull(field) /\ Val(field).type = type

\* parseClassification that takes the complexity and the task type as given
parseClassification_Unvalidated(parsed) ==
    IF IsNull(parsed) THEN DEFAULT_CLASSIFICATION
    ELSE LET o == Val(parsed)
         IN  ClassificationResult(
                 IF ~IsNull(o.complexity) THEN Val(o.complexity).value ELSE "medium",
                 IF ~IsNull(o.task_type) THEN Val(o.task_type).value ELSE "conversation",
                 IF hasType(o.estimated_tokens, "number")
                    /\ Val(o.estimated_tokens).value > 0
                 THEN Val(o.estimated_tokens).value ELSE 1000,
                 IF hasType(o.sensitive, "boolean")
                 THEN Val(o.sensitive).value ELSE FALSE)

\* parseClassification(raw), from the outcome of JSON.parse: Null when it
\* throws, the parsed object otherwise
parseClassification(parsed) ==
    IF IsNull(parsed) THEN DEFAULT_CLASSIFICATION
    ELSE LET o == Val(parsed)
         IN  ClassificationResult(
                 IF hasType(o.complexity, "string")
                    /\ Val(o.complexity).value \in validComplexities
                 THEN Val(o.complexity).value ELSE "medium",
                 IF hasType(o.task_type, "string")
                    /\ Val(o.task_type).value \in validTaskTypes
                 THEN Val(o.task_type).value ELSE "conversation",
                 IF hasType(o.estimated_tokens, "number")
                    /\ Val(o.estimated_tokens).value > 0
                 THEN Val(o.estimated_tokens).value ELSE 1000,
                 IF hasType(o.sensitive, "boolean")
                 THEN Val(o.sensitive).value ELSE FALSE)

\* What the fetch of classifyRequest comes to: a rejection (network error,
\* timeout), a response that is not ok, or a body whose message.content is
\* absent or empty (content Null) or a text (content the outcome of JSON.parse)
FetchRejected == [kind |-> "rejected"]
FetchNotOk == [kind |-> "not_ok"]
FetchBody(content) == [kind |-> "body", content |-> content]

\* classifyRequest(text, options), from what its fetch comes to
classifyRequest(reply) ==
    IF reply.kind = "body" /\ ~IsNull(reply.content)
    THEN parseClassification(Val(reply.content))
    ELSE DEFAULT_CLASSIFICATION

\* tables complexity_quality_map and task_capability_map, the seed's rows
complexity_quality_map ==
    [simple |-> 0, medium |-> 40, complex |-> 65, reasoning |-> 80]

task_capability_map ==
    [qa |-> "simple_qa", coding |-> "coding", writing |-> "writing",
     analysis |-> "analysis", extraction |-> "extraction",
     classification |-> "classification", conversation |-> "conversation",
     tool_use |-> "tool_calling", math |-> "math", reasoning |-> "complex_logic",
     multi_step |-> "multi_step", summarization |-> "summarization"]

\* mapClassificationToCriteria(db, classification)
mapClassificationToCriteria(classification) ==
    [quality_floor |->
        IF classification.complexity \in DOMAIN complexity_quality_map
        THEN complexity_quality_map[classification.complexity] ELSE 40,
     required_capability |->
        IF classification.task_type \in DOMAIN task_capability_map
        THEN Some(task_capability_map[classification.task_type]) ELSE Null]

-----------------------------------------------------------------------------
\* Tier 3: the fallback (src/router/tier3-fallback.ts)

\* getFallbackCandidate that returns the model whatever its flags
getFallbackCandidate_IgnoresFlags(rows, policy) ==
    IF IsNull(policy.fallback_model_id) THEN <<>>
    ELSE LET id == Val(policy.fallback_model_id)
         IN  IF id \in DOMAIN rows
             THEN <<RankedCandidate(rows[id], 1)>>
             ELSE <<>>

\* getFallbackCandidate that passes over a model whose provider is flagged
getFallbackCandidate_ChecksRateLimit(rows, policy) ==
    IF IsNull(policy.fallback_model_id) THEN <<>>
    ELSE LET id == Val(policy.fallback_model_id)
         IN  IF /\ id \in DOMAIN rows
                /\ rows[id].is_enabled
                /\ rows[id].is_healthy
                /\ ~provider_rate_limits[rows[id].provider].is_rate_limited
             THEN <<RankedCandidate(rows[id], 1)>>
             ELSE <<>>

\* getFallbackCandidate(db)
getFallbackCandidate(rows, policy) ==
    IF IsNull(policy.fallback_model_id) THEN <<>>
    ELSE LET id == Val(policy.fallback_model_id)
         IN  IF id \in DOMAIN rows /\ rows[id].is_enabled /\ rows[id].is_healthy
             THEN <<RankedCandidate(rows[id], 1)>>
             ELSE <<>>

-----------------------------------------------------------------------------
\* The router (src/router/router.ts)

RoutingDecision(tier, selected, classification, ruleId, candidates) ==
    [tier_used |-> tier, selected_model |-> selected,
     classification |-> classification, rule_id |-> ruleId,
     candidates |-> candidates]

\* tier1Decision that resolves 'route_self' rules only
tier1Decision_RouteSelfOnly(tier1, rows) ==
    IF /\ tier1.matched
       /\ tier1.action = "route_self"
       /\ ~IsNull(tier1.target_model_id)
       /\ Val(tier1.target_model_id) \in DOMAIN rows
    THEN Some(RoutingDecision(1, Val(tier1.target_model_id), Null,
                              Some(tier1.rule.rule_id),
                              <<RankedCandidate(rows[Val(tier1.target_model_id)], 1)>>))
    ELSE Null

\* tier1Decision that asks for a model in service, as the selector does
tier1Decision_InServiceOnly(tier1, rows) ==
    IF /\ tier1.matched
       /\ tier1.action \in {"route_self", "route"}
       /\ ~IsNull(tier1.target_model_id)
       /\ Val(tier1.target_model_id) \in DOMAIN rows
       /\ rows[Val(tier1.target_model_id)].is_enabled
       /\ rows[Val(tier1.target_model_id)].is_healthy
    THEN Some(RoutingDecision(1, Val(tier1.target_model_id), Null,
                              Some(tier1.rule.rule_id),
                              <<RankedCandidate(rows[Val(tier1.target_model_id)], 1)>>))
    ELSE Null

\* The Tier-1 branch of routeRequest: the decision it returns, or Null when
\* it falls through (the model is looked up by id alone, whatever its flags)
tier1Decision(tier1, rows) ==
    IF /\ tier1.matched
       /\ tier1.action \in {"route_self", "route"}
       /\ ~IsNull(tier1.target_model_id)
       /\ Val(tier1.target_model_id) \in DOMAIN rows
    THEN Some(RoutingDecision(1, Val(tier1.target_model_id), Null,
                              Some(tier1.rule.rule_id),
                              <<RankedCandidate(rows[Val(tier1.target_model_id)], 1)>>))
    ELSE Null

NoAvailableModelError(message) ==
    [name |-> "NoAvailableModelError", message |-> message]

\* routeRequest's value: a decision it returns or an error it throws
Returned(decision) == [decision |-> Some(decision), error |-> Null]
Thrown(error) == [decision |-> Null, error |-> Some(error)]

\* tier23Outcome that asks the fallback first
tier23Outcome_FallbackFirst(tier1, classification, candidates, fallback) ==
    IF fallback # <<>>
    THEN Returned(RoutingDecision(3, fallback[1].model.model_id,
                                  Some(classification), Null, fallback))
    ELSE IF candidates # <<>>
    THEN Returned(RoutingDecision(2, candidates[1].model.model_id,
                                  Some(classification),
                                  IF tier1.matched THEN Some(tier1.rule.rule_id)
                                  ELSE Null,
                                  candidates))
    ELSE Thrown(NoAvailableModelError("No available model to handle this request"))

\* tier23Outcome whose tier-2 decision never names a rule
tier23Outcome_NoRuleId(tier1, classification, candidates, fallback) ==
    IF candidates # <<>>
    THEN Returned(RoutingDecision(2, candidates[1].model.model_id,
                                  Some(classification), Null, candidates))
    ELSE IF fallback # <<>>
    THEN Returned(RoutingDecision(3, fallback[1].model.model_id,
                                  Some(classification), Null, fallback))
    ELSE Thrown(NoAvailableModelError("No available model to handle this request"))

\* The tail of routeRequest, from the selector's list and the fallback's
\* (the fallback is asked only when the selector's list is empty)
tier23Outcome(tier1, classification, candidates, fallback) ==
    IF candidates # <<>>
    THEN Returned(RoutingDecision(2, candidates[1].model.model_id,
                                  Some(classification),
                                  IF tier1.matched THEN Some(tier1.rule.rule_id)
                                  ELSE Null,
                                  candidates))
    ELSE IF fallback # <<>>
    THEN Returned(RoutingDecision(3, fallback[1].model.model_id,
                                  Some(classification), Null, fallback))
    ELSE Thrown(NoAvailableModelError("No available model to handle this request"))

NoRequest == Null

\* routeRequest's locals while the call is in progress and after it ended
RouteState(pc, request, metadata, rules, tier1, calls, cls, candidates, fallback, outcome) ==
    [pc |-> pc, request |-> request, metadata |-> metadata, rules |-> rules,
     tier1 |-> tier1, classifierCalls |-> calls,
     classification |-> cls, candidates |-> candidates,
     fallback |-> fallback, decision |-> outcome.decision,
     error |-> outcome.error]

Pending == [decision |-> Null, error |-> Null]

\* routeRequest from its entry to its first await: the metadata, Tier 1 and
\* either the Tier-1 decision, the rejection, or the call of the classifier
RouteStart(request) ==
    /\ req = NoRequest
    /\ LET metadata == extractMetadata(request)
           cache == loadRules(rulesCache, routing_rules, now)
           tier1 == matchTier1Rules(cache, metadata)
           resolved == tier1Decision(tier1, models)
           rules == Val(cache.cachedRules)
       IN  /\ rulesCache' = cache
           /\ req' =
                IF ~IsNull(resolved)
                THEN Some(RouteState("returned", request, metadata, rules, tier1,
                                     0, Null, Null, Null, Returned(Val(resolved))))
                ELSE IF tier1.matched /\ tier1.action = "reject"
                THEN Some(RouteState("thrown", request, metadata, rules, tier1,
                                     0, Null, Null, Null,
                                     Thrown(NoAvailableModelError(
                                         "Request rejected by routing rule"))))
                ELSE Some(RouteState("classifying", request, metadata, rules,
                                     tier1, 1, Null, Null, Null, Pending))
    /\ UNCHANGED <<serveVars, models, provider_rate_limits, routing_policy, budget_tracking,
                   model_health_log, routing_rules, now, sel, disp>>

\* routeRequest from the classifier's reply to its end: the criteria, the
\* selector, the fallback when the selector's list is empty, the outcome
RouteClassified(reply) ==
    /\ req # NoRequest
    /\ Val(req).pc = "classifying"
    /\ LET r == Val(req)
           classification == classifyRequest(reply)
           mapped == mapClassificationToCriteria(classification)
           criteria == Criteria(mapped.quality_floor, mapped.required_capability,
                                classification.sensitive,
                                r.metadata.estimated_tokens)
           budgetExceeded == isBudgetExceeded(routing_policy, budget_tracking, now)
           limits == clearExpiredRateLimits(provider_rate_limits, now)
       IN  \E scan \in ScanOrders(criteria.required_capability) :
              LET candidates == selectCandidates(models, limits, routing_policy,
                                                 budgetExceeded, scan, criteria)
                  fallback == getFallbackCandidate(models, routing_policy)
                  outcome == tier23Outcome(r.tier1, classification, candidates,
                                           fallback)
              IN  /\ provider_rate_limits' = limits
                  /\ req' = Some(RouteState(
                                IF IsNull(outcome.error) THEN "returned" ELSE "thrown",
                                r.request, r.metadata, r.rules, r.tier1,
                                r.classifierCalls, Some(classification),
                                Some(candidates),
                                IF candidates = <<>> THEN Some(fallback) ELSE Null,
                                outcome))
    /\ UNCHANGED <<serveVars, models, routing_policy, budget_tracking, model_health_log,
                   ruleVars, now, sel, disp>>

\* the caller is done with the decision or the error
RouteEnd ==
    /\ req # NoRequest
    /\ Val(req).pc \in {"returned", "thrown"}
    /\ req' = NoRequest
    /\ UNCHANGED <<serveVars, models, provider_rate_limits, routing_policy, budget_tracking,
                   model_health_log, ruleVars, now, sel, disp>>

-----------------------------------------------------------------------------
\* The adapters' errors and the dispatcher's tests on them
\* (src/backends/openai-backend.ts, anthropic-backend.ts, route-with-retry.ts)

\* String.prototype.includes
includes(s, sub) ==
    \E i \in 1..(Len(s) - Len(sub) + 1) : SubSeq(s, i, i + Len(sub) - 1) = sub

DigitChars == <<"0", "1", "2", "3", "4", "5", "6", "7", "8", "9">>

\* the decimal digits of a non-negative integer, as `${n}` prints them
RECURSIVE toDigits(_)
toDigits(n) ==
    IF n < 10 THEN <<DigitChars[n + 1]>>
    ELSE Append(toDigits(n \div 10), DigitChars[(n % 10) + 1])

\* an Error as the dispatcher looks at it: err.name, err.code, err.cause?.code,
\* err.status and err.message
ErrorRecord(name, code, causeCode, status, message) ==
    [name |-> name, code |-> code, causeCode |-> causeCode,
     status |-> status, message |-> message]

chars_OpenAIPrefix == <<"O", "p", "e", "n", "A", "I", " ", "b", "a", "c", "k", "e", "n", "d", " ", "e", "r", "r", "o", "r", " ">>
chars_AnthropicPrefix == <<"A", "n", "t", "h", "r", "o", "p", "i", "c", " ", "b", "a", "c", "k", "e", "n", "d", " ", "e", "r", "r", "o", "r", " ">>

\* The error both adapters throw for a response that is not ok:
\* `<Adapter> backend error ${response.status}: ${errorBody}` with err.status
backendError(api_format, status, errorBody) ==
    ErrorRecord("Error", Null, Null, Some(status),
                (IF api_format = "anthropic" THEN chars_AnthropicPrefix
                 ELSE chars_OpenAIPrefix)
                    \o toDigits(status) \o <<":", " ">> \o errorBody)

chars_429 == <<"4", "2", "9">>
chars_rate_limit == <<"r", "a", "t", "e", " ", "l", "i", "m", "i", "t">>
chars_timeout == <<"t", "i", "m", "e", "o", "u", "t">>
chars_econnrefused == <<"e", "c", "o", "n", "n", "r", "e", "f", "u", "s", "e", "d">>

\* is429(err)
is429(err) ==
    \/ err.status = Some(429)
    \/ includes(err.message, chars_429)
    \/ includes(toLowerCase(err.message), chars_rate_limit)

\* isTimeout(err)
isTimeout(err) ==
    \/ err.name \in {"AbortError", "TimeoutError"}
    \/ err.code \in {Some("ECONNREFUSED"), Some("ECONNRESET"), Some("ETIMEDOUT")}
    \/ err.causeCode = Some("ECONNREFUSED")
    \/ includes(toLowerCase(err.message), chars_timeout)
    \/ includes(toLowerCase(err.message), chars_econnrefused)

\* isServerError(err): err.status is a number in [500, 600)
isServerError(err) ==
    /\ ~IsNull(err.status)
    /\ Val(err.status) >= 500
    /\ Val(err.status) < 600

-----------------------------------------------------------------------------
\* The dispatcher's writes (route-with-retry.ts, health/health-checker.ts)

UNHEALTHY_THRESHOLD == 3
RETRY_AFTER_SECONDS == 60

\* markRateLimited(db, provider): an UPDATE, so a provider without a row
\* gets none
markRateLimited(limits, provider, t) ==
    [p \in DOMAIN limits |->
        IF p = provider
        THEN [limits[p] EXCEPT !.is_rate_limited = TRUE,
                               !.limited_since = Some(t),
                               !.retry_after = Some(t + RETRY_AFTER_SECONDS)]
        ELSE limits[p]]

\* markUnhealthy(db, modelId)
markUnhealthy(rows, modelId, t) ==
    [id \in DOMAIN rows |->
        IF id = modelId
        THEN [rows[id] EXCEPT !.is_healthy = FALSE, !.last_health_check = Some(t)]
        ELSE rows[id]]

HealthLogRow(modelId, healthy, errorMsg, failures) ==
    [model_id |-> modelId, is_healthy |-> healthy, error_msg |-> errorMsg,
     consecutive_failures |-> failures]

\* SELECT consecutive_failures FROM model_health_log WHERE model_id = ?
\* ORDER BY id DESC LIMIT 1, then ?? 0
lastConsecutiveFailures(log, modelId) ==
    IF \E i \in 1..Len(log) : log[i].model_id = modelId
    THEN log[CHOOSE i \in 1..Len(log) :
                 /\ log[i].model_id = modelId
                 /\ \A j \in (i + 1)..Len(log) : log[j].model_id # modelId
            ].consecutive_failures
    ELSE 0

\* markUnhealthyCheck(db, modelId, errorMsg): the health log it leaves
markUnhealthyCheckLog(log, modelId, errorMsg) ==
    Append(log, HealthLogRow(modelId, FALSE, Some(errorMsg),
                             lastConsecutiveFailures(log, modelId) + 1))

\* markUnhealthyCheck(db, modelId, errorMsg): the models table it leaves
markUnhealthyCheckModels(rows, log, modelId, t) ==
    [id \in DOMAIN rows |->
        IF id # modelId THEN rows[id]
        ELSE IF lastConsecutiveFailures(log, modelId) + 1 >= UNHEALTHY_THRESHOLD
        THEN [rows[id] EXCEPT !.is_healthy = FALSE, !.last_health_check = Some(t)]
        ELSE [rows[id] EXCEPT !.last_health_check = Some(t)]]

\* Adapter failures: response bodies and rejections

chars_TooManyRequests == <<"T", "o", "o", " ", "M", "a", "n", "y", " ", "R", "e", "q", "u", "e", "s", "t", "s">>
chars_RateLimitExceeded == <<"r", "a", "t", "e", " ", "l", "i", "m", "i", "t", " ", "e", "x", "c", "e", "e", "d", "e", "d">>
chars_InternalServerError == <<"I", "n", "t", "e", "r", "n", "a", "l", " ", "S", "e", "r", "v", "e", "r", " ", "E", "r", "r", "o", "r">>
chars_GatewayTimeout == <<"G", "a", "t", "e", "w", "a", "y", " ", "T", "i", "m", "e", "o", "u", "t">>
chars_RequestTimeout == <<"r", "e", "q", "u", "e", "s", "t", " ", "t", "i", "m", "e", "o", "u", "t", " ", "(", "r", "e", "q", "_", "4", "2", "9", "1", ")">>
chars_BadRequest == <<"B", "a", "d", " ", "R", "e", "q", "u", "e", "s", "t">>
chars_FetchFailed == <<"f", "e", "t", "c", "h", " ", "f", "a", "i", "l", "e", "d">>
chars_Aborted == <<"T", "h", "i", "s", " ", "o", "p", "e", "r", "a", "t", "i", "o", "n", " ", "w", "a", "s", " ", "a", "b", "o", "r", "t", "e", "d">>

\* the response statuses and bodies an upstream may answer with
ErrorResponses ==
    {<<429, chars_TooManyRequests>>, <<503, chars_RateLimitExceeded>>,
     <<500, chars_InternalServerError>>, <<504, chars_GatewayTimeout>>,
     <<400, chars_BadRequest>>, <<408, chars_RequestTimeout>>}

\* the errors the adapter of model m may reject with: one per error response,
\* a refused connection (fetch's TypeError with its cause) and an abort
AdapterErrors(m) ==
    {backendError(m.api_format, r[1], r[2]) : r \in ErrorResponses} \cup
    {ErrorRecord("TypeError", Null, Some("ECONNREFUSED"), Null, chars_FetchFailed),
     ErrorRecord("AbortError", Null, Null, Null, chars_Aborted)}

-----------------------------------------------------------------------------
\* The retrying dispatcher (src/backends/route-with-retry.ts)

\* what the catch block of routeWithRetry leaves of the three tables it may
\* write, for the error err of the candidate's model m
StoreTables(limits, rows, log) == [limits |-> limits, rows |-> rows, log |-> log]

\* handleFailure that leaves the rate-limit table alone
handleFailure_NoRateLimit(limits, rows, log, m, err, t) ==
    IF is429(err)
    THEN StoreTables(limits, rows, log)
    ELSE IF isTimeout(err)
    THEN StoreTables(limits, markUnhealthy(rows, m.model_id, t), log)
    ELSE IF isServerError(err)
    THEN StoreTables(limits,
                     markUnhealthyCheckModels(rows, log, m.model_id, t),
                     markUnhealthyCheckLog(log, m.model_id, err.message))
    ELSE StoreTables(limits, rows, log)

\* handleFailure that sends a timeout through the health log's threshold
handleFailure_TimeoutCounted(limits, rows, log, m, err, t) ==
    IF is429(err)
    THEN StoreTables(markRateLimited(limits, m.provider, t), rows, log)
    ELSE IF isTimeout(err) \/ isServerError(err)
    THEN StoreTables(limits,
                     markUnhealthyCheckModels(rows, log, m.model_id, t),
                     markUnhealthyCheckLog(log, m.model_id, err.message))
    ELSE StoreTables(limits, rows, log)

\* handleFailure whose chain ends by marking the model unhealthy
handleFailure_ElseUnhealthy(limits, rows, log, m, err, t) ==
    IF is429(err)
    THEN StoreTables(markRateLimited(limits, m.provider, t), rows, log)
    ELSE IF isTimeout(err)
    THEN StoreTables(limits, markUnhealthy(rows, m.model_id, t), log)
    ELSE IF isServerError(err)
    THEN StoreTables(limits,
                     markUnhealthyCheckModels(rows, log, m.model_id, t),
                     markUnhealthyCheckLog(log, m.model_id, err.message))
    ELSE StoreTables(limits, markUnhealthy(rows, m.model_id, t), log)

\* the if / else if chain of the catch block
handleFailure(limits, rows, log, m, err, t) ==
    IF is429(err)
    THEN StoreTables(markRateLimited(limits, m.provider, t), rows, log)
    ELSE IF isTimeout(err)
    THEN StoreTables(limits, markUnhealthy(rows, m.model_id, t), log)
    ELSE IF isServerError(err)
    THEN StoreTables(limits,
                     markUnhealthyCheckModels(rows, log, m.model_id, t),
                     markUnhealthyCheckLog(log, m.model_id, err.message))
    ELSE StoreTables(limits, rows, log)

\* the StreamResponse with the first candidate's record as its model
streamResponse_FirstCandidate(candidates, index) ==
    [model_id |-> candidates[index].model.model_id, model |-> candidates[1].model]

\* { ...response, model: candidate.model }: the adapter's response carries
\* the model_id of the model it was called with
streamResponse(candidates, index) ==
    [model_id |-> candidates[index].model.model_id,
     model |-> candidates[index].model]

NoDispatch == Null

\* routeWithRetry's locals: its candidates, the position of the for-of loop,
\* the adapter calls made so far (by position) and how each ended, and how the
\* call itself ended
DispatchState(pc, candidates, index, calls, outcomes, result, error) ==
    [pc |-> pc, candidates |-> candidates, index |-> index, calls |-> calls,
     outcomes |-> outcomes, result |-> result, error |-> error]

Succeeded == [ok |-> TRUE]
Failed(err, t) == [ok |-> FALSE, error |-> err, at |-> t]

\* routeWithRetry is called: with no candidate it throws, otherwise it calls
\* the first candidate's adapter and awaits it
DispatchStart(candidates) ==
    /\ disp = NoDispatch
    /\ disp' =
         IF candidates = <<>>
         THEN Some(DispatchState("thrown", candidates, 0, <<>>, <<>>, Null,
                   Some(NoAvailableModelError("No available model to handle this request"))))
         ELSE Some(DispatchState("sending", candidates, 1, <<1>>, <<>>, Null, Null))
    /\ UNCHANGED <<serveVars, models, provider_rate_limits, routing_policy, budget_tracking,
                   model_health_log, ruleVars, now, sel, req>>

\* the awaited adapter call resolves: routeWithRetry returns its response
\* with the candidate's model record
SendSucceeds ==
    /\ disp # NoDispatch
    /\ Val(disp).pc = "sending"
    /\ LET d == Val(disp)
       IN  disp' = Some(DispatchState("returned", d.candidates, d.index, d.calls,
                                      Append(d.outcomes, Succeeded),
                                      Some(streamResponse(d.candidates, d.index)),
                                      Null))
    /\ UNCHANGED <<serveVars, models, provider_rate_limits, routing_policy, budget_tracking,
                   model_health_log, ruleVars, now, sel, req>>

\* nextCandidate that passes over the candidates the store now holds as
\* rate-limited or unhealthy
nextCandidate_SkipsFlagged(candidates, index, limits, rows) ==
    LET open == {j \in (index + 1)..Len(candidates) :
                    /\ rows[candidates[j].model.model_id].is_healthy
                    /\ candidates[j].model.provider \in DOMAIN limits
                          => ~limits[candidates[j].model.provider].is_rate_limited}
    IN  IF open = {} THEN Len(candidates) + 1
        ELSE CHOOSE j \in open : \A k \in open : j <= k

\* for (const candidate of candidates): the position after index in the
\* array the call was given, whatever the store holds by then
nextCandidate(candidates, index, limits, rows) == index + 1

\* the awaited adapter call rejects with the error err: the catch block
\* updates the store, then the loop calls the next candidate's adapter, or ends and
\* routeWithRetry throws
CandidateFails(err) ==
    /\ disp # NoDispatch
    /\ Val(disp).pc = "sending"
    /\ LET d == Val(disp)
           m == d.candidates[d.index].model
           after == handleFailure(provider_rate_limits, models, model_health_log,
                                  m, err, now)
           outcomes == Append(d.outcomes, Failed(err, now))
           next == nextCandidate(d.candidates, d.index, after.limits, after.rows)
       IN  /\ provider_rate_limits' = after.limits
           /\ models' = after.rows
           /\ model_health_log' = after.log
           /\ disp' =
                IF next <= Len(d.candidates)
                THEN Some(DispatchState("sending", d.candidates, next,
                                        Append(d.calls, next), outcomes,
                                        Null, Null))
                ELSE Some(DispatchState("thrown", d.candidates, d.index, d.calls,
                          outcomes, Null,
                          Some(NoAvailableModelError("No available model to handle this request"))))
    /\ UNCHANGED <<serveVars, routing_policy, budget_tracking, ruleVars, now, sel, req>>

\* the awaited adapter call rejects with one of the upstream's errors
SendFails ==
    /\ disp # NoDispatch
    /\ Val(disp).pc = "sending"
    /\ \E err \in AdapterErrors(Val(disp).candidates[Val(disp).index].model) :
          CandidateFails(err)

-----------------------------------------------------------------------------
\* The stores and criteria the selector is exercised on

\* the clock of every initial state (day 2 of month 1)
StartTime == 250

\* the seed's rows, or the seed after one operator edit of a model's static
\* attributes (a second LAN model of quality 78; a cloud model with free output)
Registries ==
    {SeedModels,
     [SeedModels EXCEPT !["lan/mbp-m4-32b"].quality_score = 78],
     [SeedModels EXCEPT !["openai/gpt-4o"].cost_output = 0]}

\* the flag pairs <<is_enabled, is_healthy>> of a model taken out of service
DownFlags == {<<FALSE, TRUE>>, <<TRUE, FALSE>>, <<FALSE, FALSE>>}

\* a registry with every model in service, or with one model out of service
ModelTables ==
    Registries \cup
    {[rows EXCEPT ![id].is_enabled = f[1], ![id].is_healthy = f[2]] :
        rows \in Registries, id \in ModelIds, f \in DownFlags}

\* 'cloud, lan, local' and 'lan,local': operator edits of the policy's order
ReversedLocationOrder ==
    <<"c", "l", "o", "u", "d", ",", " ", "l", "a", "n", ",", " ",
      "l", "o", "c", "a", "l">>

PartialLocationOrder == <<"l", "a", "n", ",", "l", "o", "c", "a", "l">>

LocationOrders == {SeedLocationOrder, ReversedLocationOrder, PartialLocationOrder}

Tolerances == {0, 5}

FallbackIds ==
    {Null, Some("anthropic/claude-sonnet"), Some("lan/dgx-spark-70b"),
     Some("ghost/model")}

\* rate-limit tables: the seed's, or one provider flagged limited with no
\* retry_after, one that has just expired, or one still in the future
RateLimitTables(t) ==
    {SeedRateLimits} \cup
    {[SeedRateLimits EXCEPT ![p] = RateLimitRow(TRUE, since, retry)] :
        p \in {"deepseek", "anthropic"},
        since \in {Some(t - 60)},
        retry \in {Null, Some(t), Some(t + 1)}}

\* <<daily spend, monthly spend>> of the current periods' rows: below both
\* limits, the daily limit just reached, the monthly limit just reached
LedgerSpends == {<<9, 199>>, <<10, 199>>, <<9, 200>>}

\* ledgers: no row for the current periods, or rows with the given spends
Ledgers(t) ==
    {<<>>} \cup
    {(<<"daily", isoDate(t)>> :> LedgerRow(sp[1], 1))
        @@ (<<"monthly", isoMonth(isoDate(t))>> :> LedgerRow(sp[2], 3)) :
        sp \in LedgerSpends}

QualityFloors == {0, 65, 80}
Capabilities == {Null, Some("complex_logic")}
TokenEstimates == {1000, 100000}

CriteriaSet ==
    {Criteria(f, c, s, n) :
        f \in QualityFloors, c \in Capabilities, s \in BOOLEAN, n \in TokenEstimates}

InitSelect ==
    /\ now = StartTime
    /\ models \in ModelTables
    /\ provider_rate_limits \in RateLimitTables(StartTime)
    /\ routing_policy \in
         {PolicyRow(o, tol, 10, 200, Some("anthropic/claude-sonnet")) :
             o \in LocationOrders, tol \in Tolerances}
    /\ budget_tracking \in Ledgers(StartTime)
    /\ model_health_log = <<>>
    /\ routing_rules = SeedRules
    /\ rulesCache = EmptyCache
    /\ sel = Null
    /\ req = NoRequest
    /\ disp = NoDispatch
    /\ request_log = <<>>
    /\ http = <<>>
    /\ hc = Null
    /\ wire = NoWire
    /\ stderr = <<>>
    /\ sse = <<>>

NextSelect == \E c \in CriteriaSet : SelectCall(c)

SpecSelect == InitSelect /\ [][NextSelect]_vars

-----------------------------------------------------------------------------
\* The stores and requests the router is exercised on

\* the seconds the clock may advance in one step, and how far in all
TickSteps == {2, 5}
MaxElapsed == 5

\* time passes
Tick(d) ==
    /\ now + d <= StartTime + MaxElapsed
    /\ now' = now + d
    /\ UNCHANGED <<serveVars, models, provider_rate_limits, routing_policy, budget_tracking,
                   model_health_log, ruleVars, sel, req, disp>>

\* an operator disables a rule in the database (the cache is not told)
DisableRule(id) ==
    /\ id \in DOMAIN routing_rules
    /\ routing_rules[id].is_enabled
    /\ routing_rules' = [routing_rules EXCEPT ![id].is_enabled = FALSE]
    /\ UNCHANGED <<serveVars, models, provider_rate_limits, routing_policy, budget_tracking,
                   model_health_log, rulesCache, now, sel, req, disp>>

\* the seed's rules, or the seed after one operator edit: the heartbeat rule
\* aimed at a model that is not registered, at no model, turned into a
\* rejection, a plain 'route' to a cloud model for short requests or a
\* 'queue'; the status rule with a pattern that does not compile; a rule
\* added last that comes first by priority
RuleTables ==
    {SeedRules,
     [SeedRules EXCEPT ![1].target_model_id = Some("ghost/model")],
     [SeedRules EXCEPT ![1].target_model_id = Null],
     [SeedRules EXCEPT ![1].target_action = "reject"],
     [SeedRules EXCEPT ![1].target_action = "queue"],
     [SeedRules EXCEPT ![1] =
         RoutingRule(1, 10, Some("heartbeat"), Null, Null, Some(100),
                     Some("anthropic/claude-sonnet"), "route")],
     [SeedRules EXCEPT ![4].match_pattern = Some(InvalidPattern)],
     SeedRules @@ (11 :> RoutingRule(11, 5, Null, Null, Some(0), Null,
                                     Some("openai/gpt-4o"), "route"))}

\* registries: every model in service, or one of the fallback, the Tier-1
\* target and the strongest LAN model out of service
RouteModelTables ==
    {SeedModels,
     [SeedModels EXCEPT !["anthropic/claude-sonnet"].is_healthy = FALSE],
     [SeedModels EXCEPT !["anthropic/claude-sonnet"].is_enabled = FALSE],
     [SeedModels EXCEPT !["local/deepseek-r1-1.5b"].is_healthy = FALSE],
     [SeedModels EXCEPT !["lan/dgx-spark-70b"].is_healthy = FALSE]}

chars_ping == <<"p", "i", "n", "g">>
chars_status == <<"/", "S", "T", "A", "T", "U", "S", " ", "n", "o", "w">>
chars_statusx == <<"/", "s", "t", "a", "t", "u", "s", "x">>
chars_brief == <<"b", "e", " ", "b", "r", "i", "e", "f">>

\* a heartbeat, a /status command after a system prompt, a text that only
\* starts like the command, an image message, a heartbeat of 404 characters
\* and a text of 300000 characters
Requests ==
    {ChatRequest(<<Message("user", Text(chars_ping, 0))>>, Some("heartbeat"), Null),
     ChatRequest(<<Message("system", Text(chars_brief, 0)),
                   Message("user", Text(chars_status, 0))>>, Null, Null),
     ChatRequest(<<Message("user", Text(chars_statusx, 0))>>, Null, Null),
     ChatRequest(<<Message("user", Parts(2))>>, Null, Some("telegram")),
     ChatRequest(<<Message("user", Text(chars_ping, 400))>>, Some("heartbeat"), Null),
     ChatRequest(<<Message("user", Text(chars_ping, 299996))>>, Null, Null)}

\* what the classifier's fetch may come to: a failure, an error status, no
\* content, a text that is not JSON, and four JSON objects (a complex coding
\* task, a sensitive reasoning task, an object with fields of the wrong type,
\* an object with a valid complexity, an unknown task type and 0 tokens)
ClassifierReplies ==
    {FetchRejected, FetchNotOk, FetchBody(Null), FetchBody(Some(Null)),
     FetchBody(Some(Some(JsonObject(JsonString("complex"), JsonString("coding"),
                                    JsonNumber(2000), JsonBoolean(FALSE))))),
     FetchBody(Some(Some(JsonObject(JsonString("reasoning"), JsonString("reasoning"),
                                    JsonNumber(4000), JsonBoolean(TRUE))))),
     FetchBody(Some(Some(JsonObject(JsonString("huge"), JsonNumber(7),
                                    Null, JsonString("yes"))))),
     FetchBody(Some(Some(JsonObject(JsonString("simple"), JsonString("chat"),
                                    JsonNumber(0), Null))))}

\* the stores routing starts from: the seed's registry and policy under each
\* rule table, or the seed's rules under each registry, fallback id, ledger
\* and rate-limit table
InitRoute ==
    /\ now = StartTime
    /\ \/ /\ routing_rules \in RuleTables
          /\ models = SeedModels
          /\ provider_rate_limits = SeedRateLimits
          /\ routing_policy = SeedPolicy
          /\ budget_tracking = <<>>
       \/ /\ routing_rules = SeedRules
          /\ models \in RouteModelTables
          /\ provider_rate_limits \in
               {SeedRateLimits,
                [SeedRateLimits EXCEPT !["deepseek"] =
                    RateLimitRow(TRUE, Some(StartTime - 58), Some(StartTime + 2))]}
          /\ routing_policy \in
               {PolicyRow(SeedLocationOrder, 5, 10, 200, f) : f \in FallbackIds}
          /\ budget_tracking \in
               {<<>>,
                (<<"daily", isoDate(StartTime)>> :> LedgerRow(10, 4))
                   @@ (<<"monthly", isoMonth(isoDate(StartTime))>> :> LedgerRow(60, 9))}
    /\ model_health_log = <<>>
    /\ rulesCache = EmptyCache
    /\ sel = Null
    /\ req = NoRequest
    /\ disp = NoDispatch
    /\ request_log = <<>>
    /\ http = <<>>
    /\ hc = Null
    /\ wire = NoWire
    /\ stderr = <<>>
    /\ sse = <<>>

NextRoute ==
    \/ \E request \in Requests : RouteStart(request)
    \/ \E reply \in ClassifierReplies : RouteClassified(reply)
    \/ RouteEnd
    \/ \E d \in TickSteps : Tick(d)
    \/ DisableRule(1)

SpecRoute == InitRoute /\ [][NextRoute]_vars

-----------------------------------------------------------------------------
\* The stores and candidate lists the dispatcher is exercised on

\* the ranked list of the models named, with the records the store holds
rankedList(rows, ids) == [i \in 1..Len(ids) |-> RankedCandidate(rows[ids[i]], i)]

\* no candidate, the fallback alone, a list over three providers, and a list
\* with two models of one provider
CandidateIdLists ==
    {<<>>,
     <<"anthropic/claude-sonnet">>,
     <<"local/deepseek-r1-1.5b", "anthropic/claude-sonnet", "openai/gpt-4o">>,
     <<"lan/mbp-m4-32b", "lan/dgx-spark-70b">>}

\* health logs: empty; two failures in a row of one model; a failure of it
\* followed by a success, after a failure of another model
HealthLogs ==
    {<<>>,
     <<HealthLogRow("lan/mbp-m4-32b", FALSE, Some(chars_FetchFailed), 1),
       HealthLogRow("lan/mbp-m4-32b", FALSE, Some(chars_FetchFailed), 2)>>,
     <<HealthLogRow("anthropic/claude-sonnet", FALSE, Some(chars_FetchFailed), 2),
       HealthLogRow("lan/mbp-m4-32b", FALSE, Some(chars_FetchFailed), 2),
       HealthLogRow("lan/mbp-m4-32b", TRUE, Null, 0)>>}

\* rate-limit tables: the seed's, the seed's with the row of one provider
\* deleted, and one with a provider already limited
DispatchRateLimits(t) ==
    {SeedRateLimits,
     [p \in Providers \ {"openai"} |-> SeedRateLimits[p]],
     [SeedRateLimits EXCEPT !["anthropic"] =
         RateLimitRow(TRUE, Some(t - 30), Some(t + 30))]}

InitDispatch ==
    /\ now = StartTime
    /\ models = SeedModels
    /\ provider_rate_limits \in DispatchRateLimits(StartTime)
    /\ routing_policy = SeedPolicy
    /\ budget_tracking = <<>>
    /\ model_health_log \in HealthLogs
    /\ routing_rules = SeedRules
    /\ rulesCache = EmptyCache
    /\ sel = Null
    /\ req = NoRequest
    /\ disp = NoDispatch
    /\ request_log = <<>>
    /\ http = <<>>
    /\ hc = Null
    /\ wire = NoWire
    /\ stderr = <<>>
    /\ sse = <<>>

NextDispatch ==
    \/ \E ids \in CandidateIdLists : DispatchStart(rankedList(models, ids))
    \/ SendSucceeds
    \/ SendFails
    \/ \E d \in TickSteps : Tick(d)

SpecDispatch == InitDispatch /\ [][NextDispatch]_vars

-----------------------------------------------------------------------------
\* Properties of selectCandidates

ResultModels(r) == {r[i].model : i \in 1..Len(r)}

\* C1's hard conditions on one returned model row m, read off the store as the
\* call left it (the flags and the ledger are not written by the call)
PassesHardConditions(m, c) ==
    /\ m.model_id \in DOMAIN models
    /\ m = models[m.model_id]
    /\ models[m.model_id].is_enabled
    /\ models[m.model_id].is_healthy
    /\ \A p \in DOMAIN provider_rate_limits :
          p = m.provider => ~provider_rate_limits[p].is_rate_limited
    /\ m.context_window >= c.estimated_tokens
    /\ ~IsNull(c.required_capability) =>
          <<m.model_id, Val(c.required_capability)>> \in model_capabilities

\* C1: every candidate selectCandidates returns is enabled and healthy in the
\* store at the time of the call, its provider's rate-limit row is not flagged
\* limited once the expired limits are cleared, its context window holds the
\* estimated tokens, and it has the required capability when one is required.
C1_SelectedPassHardFilters ==
    ~IsNull(sel) =>
        \A m \in ResultModels(Val(sel).result) :
            PassesHardConditions(m, Val(sel).criteria)

\* C1's case: a capability is required, a limit that had expired was cleared
\* and a model of that provider is returned, while another model is unhealthy
C1_Witness ==
    /\ ~IsNull(sel)
    /\ ~IsNull(Val(sel).criteria.required_capability)
    /\ \E id \in ModelIds : models[id].is_enabled /\ ~models[id].is_healthy
    /\ \E m \in ResultModels(Val(sel).result) :
          /\ Val(sel).limitsBefore[m.provider].is_rate_limited
          /\ ~provider_rate_limits[m.provider].is_rate_limited

\* C2: when criteria.sensitive is true, or isBudgetExceeded() is true when the
\* call starts, selectCandidates returns no cloud model.
C2_NoCloudWhenGated ==
    (/\ ~IsNull(sel)
     /\ \/ Val(sel).criteria.sensitive
        \/ isBudgetExceeded(routing_policy, budget_tracking, now))
    => \A m \in ResultModels(Val(sel).result) : m.location # "cloud"

\* C2's case: the request is not sensitive, the budget is exceeded, models are
\* returned, and a cloud model that meets every other condition is left out
C2_Witness ==
    /\ ~IsNull(sel)
    /\ ~Val(sel).criteria.sensitive
    /\ isBudgetExceeded(routing_policy, budget_tracking, now)
    /\ Val(sel).result # <<>>
    /\ \E id \in ModelIds :
          /\ models[id].location = "cloud"
          /\ PassesHardConditions(models[id], Val(sel).criteria)
          /\ models[id].quality_score >= Val(sel).criteria.quality_floor

\* the set F of C3: the models that survive every hard filter
HardFiltered(c) ==
    {models[id] : id \in
        {i \in ModelIds :
            /\ PassesHardConditions(models[i], c)
            /\ (c.sensitive => models[i].location # "cloud")
            /\ (isBudgetExceeded(routing_policy, budget_tracking, now)
                    => models[i].location # "cloud")}}

StrictMatches(c) == {m \in HardFiltered(c) : m.quality_score >= c.quality_floor}

SoftMatches(c) ==
    {m \in HardFiltered(c) :
        /\ m.quality_score >= c.quality_floor - routing_policy.quality_tolerance
        /\ m.cost_output = 0}

\* C3: quality tolerance is either/or over the hard-filtered set F: if F has a
\* model at or above the floor the result is exactly those models, otherwise it
\* is exactly the models of F within the tolerance whose output price is 0;
\* no model below the floor with a non-zero output price is ever returned, and
\* a model admitted by tolerance never comes with a strict match.
C3_QualityToleranceEitherOr ==
    ~IsNull(sel) =>
        LET c == Val(sel).criteria
            got == ResultModels(Val(sel).result)
        IN  /\ got = IF StrictMatches(c) # {} THEN StrictMatches(c)
                     ELSE SoftMatches(c)
            /\ Len(Val(sel).result) = Cardinality(got)
            /\ \A m \in got :
                  m.quality_score < c.quality_floor =>
                      /\ m.cost_output = 0
                      /\ \A n \in got : n.quality_score < c.quality_floor

\* C3's case: no model of F reaches the floor, and the result is the non-empty
\* set of zero-output-price models within the tolerance, while a model of F
\* within the tolerance that has an output price is left out
C3_Witness ==
    /\ ~IsNull(sel)
    /\ StrictMatches(Val(sel).criteria) = {}
    /\ Val(sel).result # <<>>
    /\ \E m \in HardFiltered(Val(sel).criteria) :
          /\ m.quality_score >= Val(sel).criteria.quality_floor
                                    - routing_policy.quality_tolerance
          /\ m.cost_output # 0

\* the location lists the three policy texts stand for
ExpectedLocationOrder(text) ==
    CASE text = SeedLocationOrder -> <<"local", "lan", "cloud">>
      [] text = ReversedLocationOrder -> <<"cloud", "lan", "local">>
      [] text = PartialLocationOrder -> <<"lan", "local">>

\* the 0-based place of a location in the policy's order, -1 when it is absent
LocationIndex(loc) ==
    LET order == ExpectedLocationOrder(routing_policy.prefer_location_order)
    IN  IF \E i \in 1..Len(order) : order[i] = loc
        THEN (CHOOSE i \in 1..Len(order) : order[i] = loc) - 1
        ELSE -1

\* a may stand before b under the three-key order
InSortOrder(a, b) ==
    LET la == LocationIndex(a.location)
        lb == LocationIndex(b.location)
        ca == a.cost_input + a.cost_output
        cb == b.cost_input + b.cost_output
    IN  \/ la < lb
        \/ la = lb /\ ca < cb
        \/ la = lb /\ ca = cb /\ a.quality_score >= b.quality_score

\* C4: a result of length N carries the ranks 1..N in list order, and every
\* adjacent pair is ordered by location index in the policy's order ascending,
\* then cost_input + cost_output ascending, then quality_score descending.
C4_RankedInSortOrder ==
    ~IsNull(sel) =>
        LET r == Val(sel).result
        IN  /\ \A i \in 1..Len(r) :
                  r[i].rank = i /\ r[i].score = r[i].model.quality_score
            /\ \A i \in 1..(Len(r) - 1) : InSortOrder(r[i].model, r[i + 1].model)

\* C4's case: a list of at least four candidates under the reversed order, in
\* which each of the three keys decides one adjacent pair
C4_Witness ==
    /\ ~IsNull(sel)
    /\ routing_policy.prefer_location_order = ReversedLocationOrder
    /\ LET r == Val(sel).result
       IN  /\ Len(r) >= 4
           /\ \E i \in 1..(Len(r) - 1) :
                 r[i].model.location # r[i + 1].model.location
           /\ \E i \in 1..(Len(r) - 1) :
                 /\ r[i].model.location = r[i + 1].model.location
                 /\ r[i].model.cost_input + r[i].model.cost_output
                        < r[i + 1].model.cost_input + r[i + 1].model.cost_output
           /\ \E i \in 1..(Len(r) - 1) :
                 /\ r[i].model.location = r[i + 1].model.location
                 /\ r[i].model.cost_input + r[i].model.cost_output
                        = r[i + 1].model.cost_input + r[i + 1].model.cost_output
                 /\ r[i].model.quality_score > r[i + 1].model.quality_score

-----------------------------------------------------------------------------
\* Properties of routeRequest

\* the rule of the evaluated list that matches the request and has no matching
\* rule before it in ascending priority
IsFirstMatch(rule, r) ==
    /\ ruleMatches(rule, r.metadata)
    /\ \A i \in 1..Len(r.rules) :
          ruleMatches(r.rules[i], r.metadata) =>
             \/ r.rules[i].priority > rule.priority
             \/ r.rules[i] = rule

\* C6: when the first rule, in ascending priority, of the enabled rules the
\* matcher loaded that matches the request has action route or route_self and
\* names a registered model, routeRequest returns the decision tier_used = 1,
\* that model, that rule's id, classification null and the one candidate (the
\* model at rank 1), and the classifier is not called for the request.
C6_Tier1Resolves ==
    req # NoRequest =>
       \A i \in 1..Len(Val(req).rules) :
          LET r == Val(req)
              rule == r.rules[i]
          IN  (/\ IsFirstMatch(rule, r)
               /\ rule.target_action \in {"route", "route_self"}
               /\ ~IsNull(rule.target_model_id)
               /\ Val(rule.target_model_id) \in DOMAIN models)
              => /\ r.pc = "returned"
                 /\ IsNull(r.error)
                 /\ Val(r.decision).tier_used = 1
                 /\ Val(r.decision).selected_model = Val(rule.target_model_id)
                 /\ Val(r.decision).rule_id = Some(rule.rule_id)
                 /\ Val(r.decision).classification = Null
                 /\ Val(r.decision).candidates =
                       <<[model |-> models[Val(rule.target_model_id)],
                          score |-> models[Val(rule.target_model_id)].quality_score,
                          rank |-> 1]>>
                 /\ r.classifierCalls = 0
                 /\ IsNull(r.classification)

\* C6's case: a rule that is not the first of the list resolves the request
\* at Tier 1 to a model that is registered but unhealthy
C6_Witness ==
    /\ req # NoRequest
    /\ Val(req).pc = "returned"
    /\ Val(Val(req).decision).tier_used = 1
    /\ Val(req).tier1.rule # Val(req).rules[1]
    /\ ~models[Val(Val(req).decision).selected_model].is_healthy
    /\ Val(req).classifierCalls = 0

\* Tier 1 neither returned a decision nor rejected the request
Tier1FallsThrough(r) ==
    /\ ~(/\ r.tier1.matched
         /\ r.tier1.action \in {"route", "route_self"}
         /\ ~IsNull(r.tier1.target_model_id)
         /\ Val(r.tier1.target_model_id) \in DOMAIN models)
    /\ ~(r.tier1.matched /\ r.tier1.action = "reject")

IsTier(r, tier, list) ==
    /\ ~IsNull(r.decision)
    /\ Val(r.decision).tier_used = tier
    /\ Val(r.decision).candidates = list
    /\ Val(r.decision).selected_model = list[1].model.model_id

\* C7: when Tier 1 does not resolve the request, the decision is tier 2 with
\* the selector's ranked list iff that list is non-empty; otherwise it is
\* tier 3 with the single fallback candidate iff getFallbackCandidate's list is
\* non-empty; otherwise NoAvailableModelError is thrown.  Tier 3 is never used
\* when the selector returned a candidate.
C7_TierTwoThenThree ==
    (/\ req # NoRequest
     /\ Val(req).pc \in {"returned", "thrown"}
     /\ Tier1FallsThrough(Val(req)))
    => LET r == Val(req)
           selected == Val(r.candidates)
       IN  /\ ~IsNull(r.candidates)
           /\ (selected # <<>>) <=> (~IsNull(r.decision) /\ Val(r.decision).tier_used = 2)
           /\ selected # <<>> => IsTier(r, 2, selected) /\ IsNull(r.fallback)
           /\ selected = <<>> =>
                 /\ ~IsNull(r.fallback)
                 /\ Len(Val(r.fallback)) <= 1
                 /\ (Val(r.fallback) # <<>>) <=>
                       (~IsNull(r.decision) /\ Val(r.decision).tier_used = 3)
                 /\ Val(r.fallback) # <<>> => IsTier(r, 3, Val(r.fallback))
                 /\ Val(r.fallback) = <<>> =>
                       /\ r.pc = "thrown"
                       /\ IsNull(r.decision)
                       /\ Val(r.error).name = "NoAvailableModelError"
           /\ (~IsNull(r.decision) /\ Val(r.decision).tier_used = 3) => selected = <<>>
           /\ IsNull(r.decision) <=> ~IsNull(r.error)

\* C7's case: a rule matched with 'classify', the selector returned nothing
\* and the decision is tier 3 with the fallback candidate
C7_Witness ==
    /\ req # NoRequest
    /\ Val(req).pc = "returned"
    /\ Val(req).tier1.matched
    /\ Val(req).candidates = Some(<<>>)
    /\ Val(Val(req).decision).tier_used = 3
    /\ Len(Val(Val(req).decision).candidates) = 1

\* C8: getFallbackCandidate returns the empty list when the policy's
\* fallback_model_id is null or the model it names is not registered, disabled
\* or unhealthy; otherwise it returns exactly one candidate, that model at
\* rank 1, whatever the request's sensitive flag and the state of the budget.
C8_FallbackLastResort ==
    LET result == getFallbackCandidate(models, routing_policy)
        id == routing_policy.fallback_model_id
        unavailable ==
            \/ IsNull(id)
            \/ Val(id) \notin DOMAIN models
            \/ ~models[Val(id)].is_enabled
            \/ ~models[Val(id)].is_healthy
    IN  /\ unavailable => result = <<>>
        /\ ~unavailable =>
              result = <<[model |-> models[Val(id)],
                          score |-> models[Val(id)].quality_score, rank |-> 1]>>
        /\ (req # NoRequest /\ ~IsNull(Val(req).fallback)) =>
              Val(Val(req).fallback) = result

\* C8's case: for a sensitive request, with the budget exceeded, the router
\* asked the fallback and got the cloud model as its one candidate at rank 1
C8_Witness ==
    /\ req # NoRequest
    /\ ~IsNull(Val(req).fallback)
    /\ Val(Val(req).classification).sensitive
    /\ isBudgetExceeded(routing_policy, budget_tracking, now)
    /\ Len(Val(Val(req).fallback)) = 1
    /\ Val(Val(req).fallback)[1].model.location = "cloud"
    /\ Val(Val(req).fallback)[1].rank = 1
    /\ Val(Val(req).decision).tier_used = 3

-----------------------------------------------------------------------------
\* Properties of routeWithRetry

\* C5: routeWithRetry calls the candidates' adapters strictly in list order,
\* one at a time and none twice; it stops at the first call that succeeds and
\* returns that response with model set to that candidate's record; it throws
\* NoAvailableModelError iff every candidate failed, an empty list included.
C5_OrderedOneAtATime ==
    disp # NoDispatch =>
       LET d == Val(disp)
           n == Len(d.outcomes)
       IN  /\ Len(d.calls) <= Len(d.candidates)
           /\ \A k \in 1..Len(d.calls) : d.calls[k] = k
           /\ Len(d.calls) - n = (IF d.pc = "sending" THEN 1 ELSE 0)
           /\ \A k \in 1..(n - 1) : ~d.outcomes[k].ok
           /\ d.pc = "returned" <=> (n > 0 /\ d.outcomes[n].ok)
           /\ d.pc = "returned" =>
                 /\ d.result = Some([model_id |-> d.candidates[n].model.model_id,
                                     model |-> d.candidates[n].model])
                 /\ IsNull(d.error)
           /\ d.pc = "thrown" <=>
                 (n = Len(d.candidates) /\ \A k \in 1..n : ~d.outcomes[k].ok)
           /\ d.pc = "thrown" =>
                 /\ IsNull(d.result)
                 /\ Val(d.error).name = "NoAvailableModelError"

\* C5's case: the first two candidates failed, the third succeeded, and the
\* response carries the third candidate's record
C5_Witness ==
    /\ disp # NoDispatch
    /\ Val(disp).pc = "returned"
    /\ Val(disp).calls = <<1, 2, 3>>
    /\ Val(Val(disp).result).model = Val(disp).candidates[3].model
    /\ Val(Val(disp).result).model # Val(disp).candidates[1].model

\* the failure the dispatcher has just handled: the last outcome, when it is
\* a failure
LastFailure(d) == d.outcomes[Len(d.outcomes)]

HasLastFailure ==
    /\ disp # NoDispatch
    /\ Val(disp).outcomes # <<>>
    /\ ~LastFailure(Val(disp)).ok

\* the candidate whose call ended last
LastTried(d) == d.candidates[Len(d.outcomes)].model

\* C9's condition on an error: status 429, or a message containing '429' or
\* 'rate limit'
SaysRateLimited(err) ==
    \/ err.status = Some(429)
    \/ includes(err.message, <<"4", "2", "9">>)
    \/ includes(err.message, <<"r", "a", "t", "e", " ", "l", "i", "m", "i", "t">>)

\* C9: when a candidate fails with status 429, or with a message containing
\* '429' or 'rate limit', then by the time the next candidate is tried (or the
\* dispatcher throws) the rate-limit row of that candidate's provider, if it
\* has one, is is_rate_limited = true, limited_since = the time of the
\* failure, retry_after = that time + 60 s.
C9_RateLimitedOn429 ==
    (HasLastFailure /\ SaysRateLimited(LastFailure(Val(disp)).error)) =>
       LET d == Val(disp)
           p == LastTried(d).provider
           at == LastFailure(d).at
       IN  p \in DOMAIN provider_rate_limits =>
              /\ provider_rate_limits[p].is_rate_limited
              /\ provider_rate_limits[p].limited_since = Some(at)
              /\ provider_rate_limits[p].retry_after = Some(at + 60)

\* C9's case: some time into the call a candidate failed with a status that
\* is not 429 and a message that says 'rate limit', its provider's row is set,
\* and the next candidate's call is in progress
C9_Witness ==
    /\ HasLastFailure
    /\ Val(disp).pc = "sending"
    /\ LastFailure(Val(disp)).error.status # Some(429)
    /\ SaysRateLimited(LastFailure(Val(disp)).error)
    /\ LastFailure(Val(disp)).at > StartTime
    /\ provider_rate_limits[LastTried(Val(disp)).provider] =
          RateLimitRow(TRUE, Some(LastFailure(Val(disp)).at),
                       Some(LastFailure(Val(disp)).at + 60))

\* C10, as the claim states it: in every step in which a candidate fails with
\* a status in [500, 600), a failed row for that model with
\* consecutive_failures = its previous count + 1 is appended to the health
\* log, and the model's healthy flag becomes false if that count reaches 3
\* and is left unchanged otherwise.
C10_ServerErrorCounted ==
    [][(/\ disp # NoDispatch
        /\ Val(disp).pc = "sending"
        /\ disp' # NoDispatch
        /\ Len(Val(disp').outcomes) = Len(Val(disp).outcomes) + 1
        /\ ~LastFailure(Val(disp')).ok
        /\ ~IsNull(LastFailure(Val(disp')).error.status)
        /\ Val(LastFailure(Val(disp')).error.status) >= 500
        /\ Val(LastFailure(Val(disp')).error.status) < 600)
       => LET id == Val(disp).candidates[Val(disp).index].model.model_id
              count == lastConsecutiveFailures(model_health_log, id) + 1
          IN  /\ Len(model_health_log') = Len(model_health_log) + 1
              /\ SubSeq(model_health_log', 1, Len(model_health_log)) = model_health_log
              /\ model_health_log'[Len(model_health_log')].model_id = id
              /\ ~model_health_log'[Len(model_health_log')].is_healthy
              /\ model_health_log'[Len(model_health_log')].consecutive_failures = count
              /\ models'[id].is_healthy =
                    (IF count >= 3 THEN FALSE ELSE models[id].is_healthy)
      ]_vars

\* a step in which the pending adapter call of the dispatcher failed
JustFailed ==
    /\ disp # NoDispatch
    /\ Val(disp).pc = "sending"
    /\ disp' # NoDispatch
    /\ Len(Val(disp').outcomes) = Len(Val(disp).outcomes) + 1
    /\ ~LastFailure(Val(disp')).ok

\* C11's condition on an error: name AbortError or TimeoutError, code
\* ECONNREFUSED, ECONNRESET or ETIMEDOUT, cause code ECONNREFUSED, or a
\* message containing 'timeout' or 'econnrefused' in any letter case (which
\* includes every message containing them as written)
SaysTimeout(err) ==
    \/ err.name \in {"AbortError", "TimeoutError"}
    \/ err.code \in {Some("ECONNREFUSED"), Some("ECONNRESET"), Some("ETIMEDOUT")}
    \/ err.causeCode = Some("ECONNREFUSED")
    \/ includes(toLowerCase(err.message), <<"t", "i", "m", "e", "o", "u", "t">>)
    \/ includes(toLowerCase(err.message),
                <<"e", "c", "o", "n", "n", "r", "e", "f", "u", "s", "e", "d">>)

\* the rate-limit condition, 'rate limit' taken in any letter case
SaysRateLimitedAnyCase(err) ==
    \/ SaysRateLimited(err)
    \/ includes(toLowerCase(err.message),
                <<"r", "a", "t", "e", " ", "l", "i", "m", "i", "t">>)

\* C11, as the claim states it: in every step in which a candidate fails with
\* an error that meets the timeout condition, the model's is_healthy becomes
\* false, no health-log row is written, and the dispatcher goes on to the
\* next candidate (or throws after the last).
C11_TimeoutFlipsDirectly ==
    [][(JustFailed /\ SaysTimeout(LastFailure(Val(disp')).error))
       => LET d == Val(disp)
              id == d.candidates[d.index].model.model_id
          IN  /\ ~models'[id].is_healthy
              /\ model_health_log' = model_health_log
              /\ IF d.index < Len(d.candidates)
                 THEN Val(disp').pc = "sending" /\ Val(disp').index = d.index + 1
                 ELSE Val(disp').pc = "thrown"
      ]_vars

\* C11, amended: in every step in which a candidate fails with an error that
\* meets the timeout condition and does not meet the rate-limit condition
\* (status 429, or a message containing '429' or, in any letter case,
\* 'rate limit'), the model's
\* is_healthy becomes false, no health-log row is written, and the dispatcher
\* goes on to the next candidate (or throws after the last).
C11_TimeoutFlipsUnlessRateLimited ==
    [][(/\ JustFailed
        /\ SaysTimeout(LastFailure(Val(disp')).error)
        /\ ~SaysRateLimitedAnyCase(LastFailure(Val(disp')).error))
       => LET d == Val(disp)
              id == d.candidates[d.index].model.model_id
          IN  /\ ~models'[id].is_healthy
              /\ model_health_log' = model_health_log
              /\ IF d.index < Len(d.candidates)
                 THEN Val(disp').pc = "sending" /\ Val(disp').index = d.index + 1
                 ELSE Val(disp').pc = "thrown"
      ]_vars

\* a 504 Gateway Timeout has just failed the first candidate, whose flag is
\* now false with the health log still empty of rows for it, and the
\* dispatcher is calling the second candidate
C11_Witness ==
    /\ disp # NoDispatch
    /\ HasLastFailure
    /\ LET d == Val(disp)
           err == LastFailure(d).error
           id == LastTried(d).model_id
       IN  /\ SaysTimeout(err)
           /\ ~SaysRateLimitedAnyCase(err)
           /\ err.status = Some(504)
           /\ d.pc = "sending"
           /\ d.index = 2
           /\ ~models[id].is_healthy
           /\ \A k \in 1..Len(model_health_log) : model_health_log[k].model_id # id

-----------------------------------------------------------------------------
\* The rate-limit window: selector calls and a dispatcher over a clock that
\* runs past retry_after

\* the seconds the clock may advance in one step of the window, and how far
WaitSteps == {1, RETRY_AFTER_SECONDS - 1}
MaxWait == 61

\* time passes
Wait(d) ==
    /\ now + d <= StartTime + MaxWait
    /\ now' = now + d
    /\ UNCHANGED <<serveVars, models, provider_rate_limits, routing_policy, budget_tracking,
                   model_health_log, ruleVars, sel, req, disp>>

\* selectCandidates has returned: its caller holds the list
SelectReturn ==
    /\ ~IsNull(sel)
    /\ sel' = Null
    /\ UNCHANGED <<serveVars, models, provider_rate_limits, routing_policy, budget_tracking,
                   model_health_log, ruleVars, now, req, disp>>

\* rate-limit tables: the seed's, one provider marked 59 seconds ago, and
\* one provider flagged limited with no retry_after
WindowRateLimits(t) ==
    {SeedRateLimits,
     [SeedRateLimits EXCEPT !["anthropic"] =
         RateLimitRow(TRUE, Some(t - (RETRY_AFTER_SECONDS - 1)), Some(t + 1))],
     [SeedRateLimits EXCEPT !["openai"] = RateLimitRow(TRUE, Some(t - 1), Null)]}

WindowCriteria ==
    {Criteria(0, Null, FALSE, 1000), Criteria(80, Some("complex_logic"), FALSE, 1000)}

WindowCandidateIdLists == {<<"anthropic/claude-sonnet">>, <<"openai/gpt-4o">>}

InitWindow ==
    /\ now = StartTime
    /\ models = SeedModels
    /\ provider_rate_limits \in WindowRateLimits(StartTime)
    /\ routing_policy = SeedPolicy
    /\ budget_tracking = <<>>
    /\ model_health_log = <<>>
    /\ routing_rules = SeedRules
    /\ rulesCache = EmptyCache
    /\ sel = Null
    /\ req = NoRequest
    /\ disp = NoDispatch
    /\ request_log = <<>>
    /\ http = <<>>
    /\ hc = Null
    /\ wire = NoWire
    /\ stderr = <<>>
    /\ sse = <<>>

NextWindow ==
    \/ \E c \in WindowCriteria : SelectCall(c)
    \/ SelectReturn
    \/ \E ids \in WindowCandidateIdLists : DispatchStart(rankedList(models, ids))
    \/ SendSucceeds
    \/ SendFails
    \/ \E d \in WaitSteps : Wait(d)

SpecWindow == InitWindow /\ [][NextWindow]_vars

\* the models selectCandidates is to return for criteria c, read off the store
WouldSelect(c) == IF StrictMatches(c) # {} THEN StrictMatches(c) ELSE SoftMatches(c)

\* C12: a row marked limited stays limited while its retry_after is ahead of
\* the clock; a selectCandidates call made then leaves the row as it is and
\* returns no model of that provider; a call made once retry_after is reached
\* or past sets the row to is_rate_limited = false with limited_since and
\* retry_after null, and returns every model of that provider which the other
\* filters admit.
C12_RateLimitWindow ==
    [][\A p \in DOMAIN provider_rate_limits :
         LET row == provider_rate_limits[p]
         IN  (row.is_rate_limited /\ ~IsNull(row.retry_after)) =>
               /\ Val(row.retry_after) > now =>
                     provider_rate_limits'[p].is_rate_limited
               /\ (IsNull(sel) /\ ~IsNull(sel')) =>
                     IF Val(row.retry_after) > now
                     THEN /\ provider_rate_limits'[p] = row
                          /\ \A m \in ResultModels(Val(sel').result) : m.provider # p
                     ELSE /\ provider_rate_limits'[p] = RateLimitRow(FALSE, Null, Null)
                          /\ \A c \in WindowCriteria :
                                Val(sel').criteria = c =>
                                   \A m \in WouldSelect(c)' :
                                      m.provider = p =>
                                         m \in ResultModels(Val(sel').result)
      ]_vars

\* a provider the dispatcher marked limited during the run (on a 429) was
\* left out by the selector until 60 seconds later, and this call has cleared
\* its row and returned a model of it
C12_Witness ==
    /\ ~IsNull(sel)
    /\ disp # NoDispatch
    /\ HasLastFailure
    /\ LET d == Val(disp)
           p == LastTried(d).provider
           before == Val(sel).limitsBefore[p]
       IN  /\ SaysRateLimited(LastFailure(d).error)
           /\ before.is_rate_limited
           /\ before.limited_since = Some(LastFailure(d).at)
           /\ before.retry_after = Some(LastFailure(d).at + RETRY_AFTER_SECONDS)
           /\ now >= LastFailure(d).at + RETRY_AFTER_SECONDS
           /\ provider_rate_limits[p] = RateLimitRow(FALSE, Null, Null)
           /\ \E m \in ResultModels(Val(sel).result) : m.provider = p

-----------------------------------------------------------------------------
\* The health-check loop (health/health-checker.ts)

\* markHealthy(db, modelId, latencyMs): the health log it leaves
markHealthyLog(log, modelId) == Append(log, HealthLogRow(modelId, TRUE, Null, 0))

\* markHealthy(db, modelId, latencyMs): the models table it leaves
markHealthyModels(rows, modelId, t) ==
    [id \in DOMAIN rows |->
        IF id = modelId
        THEN [rows[id] EXCEPT !.is_healthy = TRUE, !.last_health_check = Some(t)]
        ELSE rows[id]]

\* a settled probe: the fetch resolved (with any response), or it rejected
\* with a reason
Fulfilled == [status |-> "fulfilled", reason |-> Null]
Rejected(message) == [status |-> "rejected", reason |-> Some(message)]

HealthTables(rows, log) == [rows |-> rows, log |-> log]

\* markUnhealthyCheck that flips the flag on every failure
markOutcome_NoThreshold(tables, modelId, result, t) ==
    IF result.status = "fulfilled"
    THEN HealthTables(markHealthyModels(tables.rows, modelId, t),
                      markHealthyLog(tables.log, modelId))
    ELSE HealthTables(markUnhealthy(tables.rows, modelId, t),
                      markUnhealthyCheckLog(tables.log, modelId, Val(result.reason)))

\* markUnhealthyCheck that writes the count of failures as 1 every time
markOutcome_CountsFromOne(tables, modelId, result, t) ==
    IF result.status = "fulfilled"
    THEN HealthTables(markHealthyModels(tables.rows, modelId, t),
                      markHealthyLog(tables.log, modelId))
    ELSE HealthTables([tables.rows EXCEPT ![modelId].last_health_check = Some(t)],
                      Append(tables.log,
                             HealthLogRow(modelId, FALSE, result.reason, 1)))

\* one turn of checkAllModels' for loop
markOutcome(tables, modelId, result, t) ==
    IF result.status = "fulfilled"
    THEN HealthTables(markHealthyModels(tables.rows, modelId, t),
                      markHealthyLog(tables.log, modelId))
    ELSE HealthTables(markUnhealthyCheckModels(tables.rows, tables.log, modelId, t),
                      markUnhealthyCheckLog(tables.log, modelId, Val(result.reason)))

\* checkAllModels' for loop over the settled results, from position i
RECURSIVE markOutcomes(_, _, _, _, _)
markOutcomes(tables, ids, results, i, t) ==
    IF i > Len(ids) THEN tables
    ELSE markOutcomes(markOutcome(tables, ids[i], results[i], t), ids, results, i + 1, t)

\* enabledModels that leaves out the models flagged unhealthy
enabledModels_HealthyOnly(rows) == SelectSeq(TableOrder, LAMBDA id : rows[id].is_enabled /\ rows[id].is_healthy)

\* SELECT model_id, endpoint_url FROM models WHERE is_enabled = 1
enabledModels(rows) == SelectSeq(TableOrder, LAMBDA id : rows[id].is_enabled)

\* the loop's state: its running flag, the calls of checkAllModels in
\* progress, the models whose probes are awaited, and the runs completed
HealthLoop(running, active, probing, runs) == [running |-> running, active |-> active, probing |-> probing, runs |-> runs]

\* the closure startHealthCheckLoop creates: running = false
loopOf(loop) == IF IsNull(loop) THEN HealthLoop(FALSE, 0, <<>>, 0) ELSE Val(loop)

\* run() without its first line: every tick calls checkAllModels
run_NoSkip(loop, enabled) == HealthLoop(TRUE, loop.active + 1, enabled, loop.runs)

\* run() up to its await: it returns at once when a pass is in progress,
\* otherwise it sets the flag and calls checkAllModels, which reads the
\* enabled models and starts their probes
run(loop, enabled) ==
    IF loop.running THEN loop
    ELSE HealthLoop(TRUE, loop.active + 1, enabled, loop.runs)

\* the most runs of checkAllModels in one behaviour
MaxChecks == 3

\* run(): startHealthCheckLoop calls it at once and then on every interval;
\* it returns when the previous run is still in progress, otherwise
\* checkAllModels reads the enabled models and awaits their probes
RunHealthCheck ==
    /\ loopOf(hc).runs < MaxChecks
    /\ hc' = Some(run(loopOf(hc), enabledModels(models)))
    /\ UNCHANGED <<models, provider_rate_limits, routing_policy, budget_tracking,
                   model_health_log, ruleVars, now, sel, req, disp, request_log, http, wire,
                   stderr, sse>>

\* Promise.allSettled resolves: the for loop records every outcome
ProbesSettled ==
    /\ ~IsNull(hc)
    /\ Val(hc).running
    /\ \E results \in [1..Len(Val(hc).probing) -> {Fulfilled, Rejected(chars_FetchFailed)}] :
         LET after == markOutcomes(HealthTables(models, model_health_log),
                                   Val(hc).probing, results, 1, now)
         IN  /\ models' = after.rows
             /\ model_health_log' = after.log
    /\ hc' = Some(HealthLoop(FALSE, Val(hc).active - 1, <<>>, Val(hc).runs + 1))
    /\ UNCHANGED <<provider_rate_limits, routing_policy, budget_tracking,
                   ruleVars, now, sel, req, disp, request_log, http, wire,
                   stderr, sse>>

\* the models an operator left enabled for the health runs
ProbedIds == {"lan/mbp-m4-32b", "anthropic/claude-sonnet"}

ProbedModels == [id \in ModelIds |-> [SeedModels[id] EXCEPT !.is_enabled = id \in ProbedIds]]

\* health logs of earlier runs: none, or two failures in a row of one model
ProbedLogs ==
    {<<>>,
     <<HealthLogRow("lan/mbp-m4-32b", FALSE, Some(chars_FetchFailed), 1),
       HealthLogRow("lan/mbp-m4-32b", FALSE, Some(chars_FetchFailed), 2)>>}

InitHealth ==
    /\ now = StartTime
    /\ models = ProbedModels
    /\ provider_rate_limits = SeedRateLimits
    /\ routing_policy = SeedPolicy
    /\ budget_tracking = <<>>
    /\ model_health_log \in ProbedLogs
    /\ routing_rules = SeedRules
    /\ rulesCache = EmptyCache
    /\ sel = Null
    /\ req = NoRequest
    /\ disp = NoDispatch
    /\ request_log = <<>>
    /\ http = <<>>
    /\ hc = Null
    /\ wire = NoWire
    /\ stderr = <<>>
    /\ sse = <<>>

NextHealth ==
    \/ RunHealthCheck
    \/ ProbesSettled
    \/ DispatchStart(rankedList(models, <<"lan/mbp-m4-32b">>))
    \/ SendSucceeds
    \/ SendFails

SpecHealth == InitHealth /\ [][NextHealth]_vars

-----------------------------------------------------------------------------
\* Properties of the health log

\* the count in the most recent row of the model before position i, 0 when
\* there is none
CountBefore(log, i, modelId) ==
    LET earlier == {j \in 1..(i - 1) : log[j].model_id = modelId}
    IN  IF earlier = {} THEN 0
        ELSE log[CHOOSE j \in earlier : \A k \in earlier : k <= j].consecutive_failures

\* the positions of the rows a step appended
NewRows == (Len(model_health_log) + 1)..Len(model_health_log')

\* C13: every step keeps the rows the log has, and every row it appends has
\* consecutive_failures = 0 when it records a success and otherwise the count
\* of the model's most recent earlier row + 1 (1 when there is none).
C13_ConsecutiveFailuresCounted ==
    [][/\ Len(model_health_log') >= Len(model_health_log)
       /\ SubSeq(model_health_log', 1, Len(model_health_log)) = model_health_log
       /\ \A i \in NewRows :
            LET row == model_health_log'[i]
            IN  row.consecutive_failures =
                   IF row.is_healthy THEN 0
                   ELSE CountBefore(model_health_log', i, row.model_id) + 1
      ]_vars

\* a model's rows count 1, 2, 3, then 0 for a success, then 1 again
C13_Witness ==
    \E a, b, c, d \in 1..Len(model_health_log) :
        /\ a < b /\ b < c /\ c < d
        /\ \A i \in {a, b, c, d} : model_health_log[i].model_id = "lan/mbp-m4-32b"
        /\ model_health_log[a].consecutive_failures = 3
        /\ model_health_log[b].is_healthy
        /\ model_health_log[b].consecutive_failures = 0
        /\ model_health_log[c].consecutive_failures = 1
        /\ model_health_log[d].consecutive_failures = 2
        /\ \A i \in (a + 1)..(d - 1) :
              model_health_log[i].model_id = "lan/mbp-m4-32b" => i \in {b, c}

\* the count in the model's most recent row, 0 when it has none
LastCount(log, modelId) == CountBefore(log, Len(log) + 1, modelId)

\* C14, as the claim states it: in every state a model's is_healthy is false
\* iff the count of its most recent health-log row is 3 or more.
C14_FlagDerivedFromLog ==
    \A id \in ModelIds :
        ~models[id].is_healthy <=> LastCount(model_health_log, id) >= UNHEALTHY_THRESHOLD

\* C14, amended: after every step, a model whose most recent health-log row
\* counts 3 or more failures has is_healthy false; a step turns is_healthy
\* from true to false only by appending a row of that model with a count of 3
\* or more, or in the dispatcher on an error that meets the timeout condition
\* (with no row written); and a step turns it from false to true only by
\* appending a success row of that model.
C14_FlagFollowsLogOrTimeout ==
    [][\A id \in ModelIds :
         /\ LastCount(model_health_log', id) >= UNHEALTHY_THRESHOLD
               => ~models'[id].is_healthy
         /\ (models[id].is_healthy /\ ~models'[id].is_healthy) =>
               \/ /\ \E i \in NewRows : model_health_log'[i].model_id = id
                  /\ LastCount(model_health_log', id) >= UNHEALTHY_THRESHOLD
               \/ /\ JustFailed
                  /\ SaysTimeout(LastFailure(Val(disp')).error)
                  /\ LastTried(Val(disp')).model_id = id
                  /\ model_health_log' = model_health_log
         /\ (~models[id].is_healthy /\ models'[id].is_healthy) =>
               \E i \in NewRows :
                  /\ model_health_log'[i].model_id = id
                  /\ model_health_log'[i].is_healthy
                  /\ LastCount(model_health_log', id) = 0
      ]_vars

\* after two failed probes that left it healthy, a third has brought the
\* model's count to 3 and its flag to false, while the other probed model,
\* with fewer failures, is still healthy
C14_Witness ==
    /\ ~IsNull(hc)
    /\ Val(hc).runs >= 1
    /\ model_health_log \notin ProbedLogs
    /\ LastCount(model_health_log, "lan/mbp-m4-32b") = UNHEALTHY_THRESHOLD
    /\ ~models["lan/mbp-m4-32b"].is_healthy
    /\ LastCount(model_health_log, "anthropic/claude-sonnet") \in {1, 2}
    /\ models["anthropic/claude-sonnet"].is_healthy

-----------------------------------------------------------------------------
\* The budget check over ledgers of several periods and a clock that runs
\* past midnight

\* a ledger with rows <<period_type, period_key, total_spend>>
ledgerOf(rows) ==
    [key \in {<<r[1], r[2]>> : r \in rows} |->
        LedgerRow((CHOOSE r \in rows : <<r[1], r[2]>> = key)[3], 1)]

\* ledgers around the limits 10 a day and 200 a month: rows of the current
\* day and month at, just under and over their limits, alone or together,
\* and rows of the day and the month before over their limits
BudgetLedgers(t) ==
    LET today == isoDate(t)
        month == isoMonth(today)
        yesterday == isoDate(t - SecondsPerDay)
        lastMonth == isoMonth(isoDate(t - SecondsPerDay * DaysPerMonth))
    IN  {ledgerOf(rows) : rows \in
           {{},
            {<<"daily", today, 9>>, <<"monthly", month, 199>>},
            {<<"daily", today, 10>>},
            {<<"daily", today, 10>>, <<"monthly", month, 10>>},
            {<<"daily", today, 16>>, <<"monthly", month, 16>>},
            {<<"monthly", month, 200>>},
            {<<"daily", today, 0>>, <<"monthly", month, 250>>},
            {<<"daily", yesterday, 15>>, <<"daily", today, 3>>, <<"monthly", month, 18>>},
            {<<"daily", yesterday, 15>>, <<"monthly", lastMonth, 250>>}}}

InitBudget ==
    /\ now = StartTime
    /\ models = SeedModels
    /\ provider_rate_limits = SeedRateLimits
    /\ routing_policy = SeedPolicy
    /\ budget_tracking \in BudgetLedgers(StartTime)
    /\ model_health_log = <<>>
    /\ routing_rules = SeedRules
    /\ rulesCache = EmptyCache
    /\ sel = Null
    /\ req = NoRequest
    /\ disp = NoDispatch
    /\ request_log = <<>>
    /\ http = <<>>
    /\ hc = Null
    /\ wire = NoWire
    /\ stderr = <<>>
    /\ sse = <<>>

NextBudget ==
    \/ \E c \in WindowCriteria : SelectCall(c)
    \/ SelectReturn
    \/ \E d \in WaitSteps : Wait(d)

SpecBudget == InitBudget /\ [][NextBudget]_vars

\* the ledger has a row of the current day, or of the current month, whose
\* total_spend is at or over the policy's limit for that period
SpendAtOrOverLimit ==
    \E key \in DOMAIN budget_tracking :
        \/ /\ key = <<"daily", isoDate(now)>>
           /\ budget_tracking[key].total_spend >= routing_policy.budget_daily_usd
        \/ /\ key = <<"monthly", isoMonth(isoDate(now))>>
           /\ budget_tracking[key].total_spend >= routing_policy.budget_monthly_usd

\* C19: isBudgetExceeded(), as selectCandidates calls it, returns true iff the
\* row of the current day or the row of the current month has total_spend >=
\* the policy's limit for it.
C19_BudgetExceededIffAtLimit ==
    [][(IsNull(sel) /\ ~IsNull(sel')) => (Val(sel').budgetExceeded <=> SpendAtOrOverLimit)]_vars

\* the call returned true with the day's spend exactly at the daily limit and
\* no row over the monthly limit
C19_Witness ==
    /\ ~IsNull(sel)
    /\ Val(sel).budgetExceeded
    /\ now = StartTime
    /\ <<"daily", isoDate(now)>> \in DOMAIN budget_tracking
    /\ budget_tracking[<<"daily", isoDate(now)>>].total_spend = routing_policy.budget_daily_usd
    /\ \A key \in DOMAIN budget_tracking :
          key[1] = "monthly" => budget_tracking[key].total_spend < routing_policy.budget_monthly_usd

-----------------------------------------------------------------------------
\* Properties of the classifier

\* a ClassificationResult with every field in range
IsValidClassification(c) ==
    /\ c.complexity \in {"simple", "medium", "complex", "reasoning"}
    /\ c.task_type \in
          {"qa", "coding", "writing", "analysis", "extraction", "classification",
           "conversation", "tool_use", "math", "reasoning", "multi_step",
           "summarization"}
    /\ c.estimated_tokens \in Nat \ {0}
    /\ c.sensitive \in BOOLEAN

\* the field of a parsed object when it is present with the type and within
\* the set wanted, and otherwise the default
FieldOr(field, type, wanted, default) ==
    IF field # Null /\ field[1].type = type /\ field[1].value \in wanted
    THEN field[1].value ELSE default

\* what C20 requires for a reply: the full defaults on any error, and
\* otherwise each field of the parsed object or its default
RequiredClassification(reply) ==
    IF reply.kind # "body" \/ reply.content = Null \/ reply.content[1] = Null
    THEN [complexity |-> "medium", task_type |-> "conversation",
          estimated_tokens |-> 1000, sensitive |-> FALSE]
    ELSE LET o == reply.content[1][1]
         IN  [complexity |->
                 FieldOr(o.complexity, "string",
                         {"simple", "medium", "complex", "reasoning"}, "medium"),
              task_type |->
                 FieldOr(o.task_type, "string",
                         {"qa", "coding", "writing", "analysis", "extraction",
                          "classification", "conversation", "tool_use", "math",
                          "reasoning", "multi_step", "summarization"},
                         "conversation"),
              estimated_tokens |->
                 FieldOr(o.estimated_tokens, "number", Nat \ {0}, 1000),
              sensitive |-> FieldOr(o.sensitive, "boolean", BOOLEAN, FALSE)]

\* C20: for every outcome of the classifier's fetch classifyRequest returns
\* (it does not raise) a result with every field in range: the full defaults on
\* a failure, an error status, empty content or unparseable output, and
\* otherwise the parsed fields with the default in place of each invalid one;
\* routeRequest goes on with that result to a tier 2 or tier 3 decision that
\* carries it, or to NoAvailableModelError when there is no model at all.
C20_ClassifierNeverRaises ==
    /\ \A reply \in ClassifierReplies :
          /\ IsValidClassification(classifyRequest(reply))
          /\ classifyRequest(reply) = RequiredClassification(reply)
    /\ (req # NoRequest /\ ~IsNull(Val(req).classification)) =>
          LET r == Val(req)
          IN  /\ IsValidClassification(Val(r.classification))
              /\ \E reply \in ClassifierReplies :
                    Val(r.classification) = RequiredClassification(reply)
              /\ r.pc \in {"returned", "thrown"}
              /\ r.classifierCalls = 1
              /\ ~IsNull(r.decision) =>
                    /\ Val(r.decision).tier_used \in {2, 3}
                    /\ Val(r.decision).classification = r.classification
              /\ IsNull(r.decision) =>
                    /\ Val(r.error).name = "NoAvailableModelError"
                    /\ Val(r.candidates) = <<>>

\* the classifier answered with a valid complexity, an unknown task type and
\* 0 tokens: routing ended at tier 2 with the complexity kept and the
\* defaults in place of the other fields
C20_Witness ==
    /\ req # NoRequest
    /\ Val(req).pc = "returned"
    /\ Val(req).classification =
          Some(ClassificationResult("simple", "conversation", 1000, FALSE))
    /\ Val(Val(req).decision).tier_used = 2

-----------------------------------------------------------------------------
\* The completion handler (src/routes/chat-completions.ts)

\* a chunk's usage: prompt_tokens and completion_tokens
TokenUsage(prompt, completion) == [prompt_tokens |-> prompt, completion_tokens |-> completion]

\* calculateCost, and logRequest's costUsd: prices are per million tokens (and
\* held here in hundredths of a USD)
calculateCost(model, inputTokens, outputTokens) ==
    (inputTokens * model.cost_input + outputTokens * model.cost_output)
        \div (1000000 * 100)

\* a row of request_log
RequestLogRow(decision, inputTokens, outputTokens, costUsd, success, t) ==
    [request_at |-> t, tier_used |-> decision.tier_used, rule_id |-> decision.rule_id,
     classification |-> decision.classification,
     selected_model |-> decision.selected_model,
     input_tokens |-> inputTokens, output_tokens |-> outputTokens,
     cost_usd |-> costUsd, success |-> success]

\* INSERT INTO budget_tracking ... ON CONFLICT DO UPDATE that replaces the
\* row's totals with the request's
upsertBudget_Overwrites(ledger, key, costUsd) ==
    IF key \in DOMAIN ledger
    THEN [ledger EXCEPT ![key] = LedgerRow(costUsd, 1)]
    ELSE ledger @@ (key :> LedgerRow(costUsd, 1))

\* INSERT INTO budget_tracking ... ON CONFLICT(period_type, period_key) DO
\* UPDATE SET total_spend = total_spend + excluded.total_spend,
\* request_count = request_count + 1
upsertBudget(ledger, key, costUsd) ==
    IF key \in DOMAIN ledger
    THEN [ledger EXCEPT ![key] = LedgerRow(ledger[key].total_spend + costUsd,
                                           ledger[key].request_count + 1)]
    ELSE ledger @@ (key :> LedgerRow(costUsd, 1))

LogTables(log, ledger) == [log |-> log, ledger |-> ledger]

\* logRequest that prices the request with the first candidate's record
logRequest_FirstCandidate(log, ledger, decision, actualModel, inTok, outTok, success, t) ==
    LET costUsd == calculateCost(decision.candidates[1].model, inTok, outTok)
        today == isoDate(t)
        row == RequestLogRow(decision, inTok, outTok, costUsd, success, t)
    IN  LogTables(Append(log, row),
                  IF costUsd > 0
                  THEN upsertBudget(upsertBudget(ledger, <<"daily", today>>, costUsd),
                                    <<"monthly", isoMonth(today)>>, costUsd)
                  ELSE ledger)

\* logRequest that is also run when the reply is sent
logRequest_Twice(log, ledger, decision, actualModel, inTok, outTok, success, t) ==
    LET costUsd == calculateCost(actualModel, inTok, outTok)
        row == RequestLogRow(decision, inTok, outTok, costUsd, success, t)
    IN  LogTables(Append(Append(log, row), row), ledger)

\* logRequest(db, decision, actualModel, startTime, inputTokens, outputTokens,
\* success, request): the request_log row, then the two ledger upserts when
\* the cost is positive
logRequest(log, ledger, decision, actualModel, inTok, outTok, success, t) ==
    LET costUsd == calculateCost(actualModel, inTok, outTok)
        today == isoDate(t)
        row == RequestLogRow(decision, inTok, outTok, costUsd, success, t)
    IN  LogTables(Append(log, row),
                  IF costUsd > 0
                  THEN upsertBudget(upsertBudget(ledger, <<"daily", today>>, costUsd),
                                    <<"monthly", isoMonth(today)>>, costUsd)
                  ELSE ledger)

\* the handler's locals from the return of routeWithRetry on
Handler(pc, decision, actualModel, isStreaming, inTok, outTok, chunks, lastUsage, status) ==
    [pc |-> pc, decision |-> decision, actualModel |-> actualModel,
     isStreaming |-> isStreaming, inputTokens |-> inTok, outputTokens |-> outTok,
     chunks |-> chunks, lastUsage |-> lastUsage, status |-> status]

\* a client's connection: whether it is open, whether the 'close' listener
\* has called streamResponse.abort(), and the SSE events written to it
Client(open, aborted, events) == [open |-> open, aborted |-> aborted, events |-> events]

\* data: {chunk}, data: [DONE] and data: {"error": ...}
ChunkEvent(n) == [type |-> "chunk", index |-> n]
DoneEvent == [type |-> "done"]
ErrorEvent == [type |-> "error"]

\* the handler is past routeRequest and routeWithRetry: its client joins the
\* handlers' clients as it is by then, and the next request has a new one
handOver(w) == [open |-> TRUE, out |-> Append(w.out, Client(w.open, FALSE, <<>>))]

\* reply.raw.write of one event to the k-th handler's client
written(w, k, event) == [w EXCEPT !.out[k].events = Append(@, event)]

\* routeRequest threw NoAvailableModelError: the handler replies 503
ReplyNoRoute ==
    /\ req # NoRequest
    /\ Val(req).pc = "thrown"
    /\ req' = NoRequest
    /\ http' = Append(http, Handler("done", Null, Null, FALSE, 0, 0, 0, Null, Some(503)))
    /\ wire' = handOver(wire)
    /\ UNCHANGED <<models, provider_rate_limits, routing_policy, budget_tracking,
                   model_health_log, ruleVars, now, sel, disp, request_log, hc,
                   stderr, sse>>

\* routeRequest returned: the handler sets the headers and calls
\* routeWithRetry with the decision's candidates
HandlerDispatches ==
    /\ req # NoRequest
    /\ Val(req).pc = "returned"
    /\ DispatchStart(Val(Val(req).decision).candidates)

\* ReplyAllFailed that logs the failed request before it replies
ReplyAllFailed_Logs ==
    /\ req # NoRequest
    /\ disp # NoDispatch
    /\ Val(disp).pc = "thrown"
    /\ req' = NoRequest
    /\ disp' = NoDispatch
    /\ http' = Append(http, Handler("done", Val(req).decision, Null, FALSE, 0, 0, 0,
                                    Null, Some(503)))
    /\ wire' = handOver(wire)
    /\ request_log' = logRequest(request_log, budget_tracking, Val(Val(req).decision),
                                 Val(disp).candidates[1].model, 0, 0, FALSE, now).log
    /\ UNCHANGED <<models, provider_rate_limits, routing_policy, budget_tracking,
                   model_health_log, ruleVars, now, sel, hc, stderr, sse>>

\* routeWithRetry threw NoAvailableModelError: the handler replies 503
ReplyAllFailed ==
    /\ req # NoRequest
    /\ disp # NoDispatch
    /\ Val(disp).pc = "thrown"
    /\ req' = NoRequest
    /\ disp' = NoDispatch
    /\ http' = Append(http, Handler("done", Val(req).decision, Null, FALSE, 0, 0, 0,
                                    Null, Some(503)))
    /\ wire' = handOver(wire)
    /\ UNCHANGED <<models, provider_rate_limits, routing_policy, budget_tracking,
                   model_health_log, ruleVars, now, sel, request_log, hc,
                   stderr, sse>>

\* routeWithRetry returned: the handler keeps streamResponse.model as
\* actualModel and starts to read the stream (writing the SSE head when
\* chatRequest.stream is not false)
HandlerReads(isStreaming) ==
    /\ req # NoRequest
    /\ disp # NoDispatch
    /\ Val(disp).pc = "returned"
    /\ http' = Append(http, Handler("reading", Val(req).decision,
                                    Some(Val(Val(disp).result).model), isStreaming,
                                    0, 0, 0, Null, Null))
    /\ wire' = handOver(wire)
    /\ req' = NoRequest
    /\ disp' = NoDispatch
    /\ UNCHANGED <<models, provider_rate_limits, routing_policy, budget_tracking,
                   model_health_log, ruleVars, now, sel, request_log, hc,
                   stderr, sse>>

\* the chunks one backend stream may yield at most
MaxChunks == 2

\* a || b on token counts: b when a is 0 or absent
orElse(a, b) == IF IsNull(a) \/ a = Some(0) THEN b ELSE Val(a)

\* the next chunk of the backend stream arrives, with or without usage: the
\* SSE branch keeps its usage and forwards it, the other branch collects it
StreamChunk(k, usage) ==
    /\ k \in 1..Len(http)
    /\ http[k].pc = "reading"
    /\ http[k].chunks < MaxChunks
    /\ LET h == http[k]
           prompt == IF IsNull(usage) THEN Null ELSE Some(Val(usage).prompt_tokens)
           completion == IF IsNull(usage) THEN Null ELSE Some(Val(usage).completion_tokens)
       IN  http' = [http EXCEPT ![k] =
                       IF h.isStreaming
                       THEN Handler("reading", h.decision, h.actualModel, TRUE,
                                    orElse(prompt, h.inputTokens),
                                    orElse(completion, h.outputTokens),
                                    h.chunks + 1, usage, Null)
                       ELSE Handler("reading", h.decision, h.actualModel, FALSE,
                                    0, 0, h.chunks + 1, usage, Null)]
    /\ wire' = IF http[k].isStreaming
               THEN written(wire, k, ChunkEvent(http[k].chunks + 1))
               ELSE wire
    /\ UNCHANGED <<models, provider_rate_limits, routing_policy, budget_tracking,
                   model_health_log, ruleVars, now, sel, req, disp, request_log, hc,
                   stderr, sse>>

\* lastChunk?.usage?.prompt_tokens ?? 0 and its completion_tokens twin
usageOrZero(usage) == IF IsNull(usage) THEN TokenUsage(0, 0) ELSE Val(usage)

\* StreamEnds without the test chunks.length === 0
StreamEnds_NoEmptyTest(k) ==
    /\ k \in 1..Len(http)
    /\ http[k].pc = "reading"
    /\ LET h == http[k]
           none == FALSE
           inTok == IF h.isStreaming THEN h.inputTokens
                    ELSE usageOrZero(h.lastUsage).prompt_tokens
           outTok == IF h.isStreaming THEN h.outputTokens
                     ELSE usageOrZero(h.lastUsage).completion_tokens
           after == logRequest(request_log, budget_tracking, Val(h.decision),
                               Val(h.actualModel), inTok, outTok, ~none, now)
       IN  /\ request_log' = after.log
           /\ budget_tracking' = after.ledger
           /\ http' = [http EXCEPT ![k] =
                          Handler("done", h.decision, h.actualModel, h.isStreaming,
                                  inTok, outTok, h.chunks, h.lastUsage,
                                  Some(IF none THEN 502 ELSE 200))]
    /\ wire' = IF http[k].isStreaming THEN written(wire, k, DoneEvent) ELSE wire
    /\ UNCHANGED <<models, provider_rate_limits, routing_policy, model_health_log,
                   ruleVars, now, sel, req, disp, hc,
                   stderr, sse>>

\* the backend stream is done: the SSE branch writes [DONE], ends the reply
\* and logs in its finally; the other branch logs a failure and replies 502
\* when no chunk came, and otherwise logs the last chunk's usage and replies
StreamEnds(k) ==
    /\ k \in 1..Len(http)
    /\ http[k].pc = "reading"
    /\ LET h == http[k]
           none == ~h.isStreaming /\ h.chunks = 0
           inTok == IF h.isStreaming THEN h.inputTokens
                    ELSE usageOrZero(h.lastUsage).prompt_tokens
           outTok == IF h.isStreaming THEN h.outputTokens
                     ELSE usageOrZero(h.lastUsage).completion_tokens
           after == logRequest(request_log, budget_tracking, Val(h.decision),
                               Val(h.actualModel), inTok, outTok, ~none, now)
       IN  /\ request_log' = after.log
           /\ budget_tracking' = after.ledger
           /\ http' = [http EXCEPT ![k] =
                          Handler("done", h.decision, h.actualModel, h.isStreaming,
                                  inTok, outTok, h.chunks, h.lastUsage,
                                  Some(IF none THEN 502 ELSE 200))]
    /\ wire' = IF http[k].isStreaming THEN written(wire, k, DoneEvent) ELSE wire
    /\ UNCHANGED <<models, provider_rate_limits, routing_policy, model_health_log,
                   ruleVars, now, sel, req, disp, hc,
                   stderr, sse>>

\* StreamRaises whose SSE branch goes on to write the terminator after the
\* error event
StreamRaises_WritesDone(k) ==
    /\ k \in 1..Len(http)
    /\ http[k].pc = "reading"
    /\ LET h == http[k]
           inTok == IF h.isStreaming THEN h.inputTokens ELSE 0
           outTok == IF h.isStreaming THEN h.outputTokens ELSE 0
           after == logRequest(request_log, budget_tracking, Val(h.decision),
                               Val(h.actualModel), inTok, outTok, FALSE, now)
       IN  /\ request_log' = after.log
           /\ budget_tracking' = after.ledger
           /\ http' = [http EXCEPT ![k] =
                          Handler("done", h.decision, h.actualModel, h.isStreaming,
                                  inTok, outTok, h.chunks, h.lastUsage,
                                  Some(IF h.isStreaming THEN 200 ELSE 500))]
    /\ wire' = IF http[k].isStreaming THEN written(written(wire, k, ErrorEvent), k, DoneEvent) ELSE wire
    /\ UNCHANGED <<models, provider_rate_limits, routing_policy, model_health_log,
                   ruleVars, now, sel, req, disp, hc,
                   stderr, sse>>

\* the backend stream raises (a broken connection, or the abort on the
\* client's disconnect): the SSE branch writes the error event and logs what
\* it has counted in its finally; the other branch logs a failure with no
\* tokens and rethrows
StreamRaises(k) ==
    /\ k \in 1..Len(http)
    /\ http[k].pc = "reading"
    /\ LET h == http[k]
           inTok == IF h.isStreaming THEN h.inputTokens ELSE 0
           outTok == IF h.isStreaming THEN h.outputTokens ELSE 0
           after == logRequest(request_log, budget_tracking, Val(h.decision),
                               Val(h.actualModel), inTok, outTok, FALSE, now)
       IN  /\ request_log' = after.log
           /\ budget_tracking' = after.ledger
           /\ http' = [http EXCEPT ![k] =
                          Handler("done", h.decision, h.actualModel, h.isStreaming,
                                  inTok, outTok, h.chunks, h.lastUsage,
                                  Some(IF h.isStreaming THEN 200 ELSE 500))]
    /\ wire' = IF http[k].isStreaming THEN written(wire, k, ErrorEvent) ELSE wire
    /\ UNCHANGED <<models, provider_rate_limits, routing_policy, model_health_log,
                   ruleVars, now, sel, req, disp, hc,
                   stderr, sse>>

-----------------------------------------------------------------------------
\* The stores and requests the completion handler is exercised on

\* the requests one behaviour takes in
MaxServed == 1

\* the registry with the second LAN model and the second cloud model disabled
ServeModels ==
    [id \in ModelIds |->
        [SeedModels[id] EXCEPT
            !.is_enabled = id \notin {"lan/dgx-spark-70b", "openai/gpt-4o"}]]

\* that registry, or one with every model disabled
ServeModelTables ==
    {ServeModels, [id \in ModelIds |-> [SeedModels[id] EXCEPT !.is_enabled = FALSE]]}

\* a chat message that no Tier-1 rule resolves
ServeRequests == {ChatRequest(<<Message("user", Text(chars_statusx, 0))>>, Null, Null)}

\* the classifier reports a complex coding task
ServeReplies ==
    {FetchBody(Some(Some(JsonObject(JsonString("complex"), JsonString("coding"),
                                    JsonNumber(2000), JsonBoolean(FALSE)))))}

\* the usage a chunk may carry: none, a prompt alone, a prompt and a completion
ChunkUsages ==
    {Null, Some(TokenUsage(1000000, 0)), Some(TokenUsage(1000000, 200000))}

\* the ledger at the start: the month's row of earlier days, no row of today
ServeLedger(t) == (<<"monthly", isoMonth(isoDate(t))>> :> LedgerRow(190, 7))

InitServe ==
    /\ now = StartTime
    /\ models \in ServeModelTables
    /\ provider_rate_limits = SeedRateLimits
    /\ routing_policy = SeedPolicy
    /\ budget_tracking = ServeLedger(StartTime)
    /\ model_health_log = <<>>
    /\ routing_rules = SeedRules
    /\ rulesCache = EmptyCache
    /\ sel = Null
    /\ req = NoRequest
    /\ disp = NoDispatch
    /\ request_log = <<>>
    /\ http = <<>>
    /\ hc = Null
    /\ wire = NoWire
    /\ stderr = <<>>
    /\ sse = <<>>

NextServe ==
    \/ /\ Len(http) < MaxServed
       /\ \E request \in ServeRequests : RouteStart(request)
    \/ \E reply \in ServeReplies : RouteClassified(reply)
    \/ ReplyNoRoute
    \/ HandlerDispatches
    \/ SendSucceeds
    \/ SendFails
    \/ ReplyAllFailed
    \/ \E isStreaming \in BOOLEAN : HandlerReads(isStreaming)
    \/ \E k \in 1..Len(http) : \E usage \in ChunkUsages : StreamChunk(k, usage)
    \/ \E k \in 1..Len(http) : StreamEnds(k)
    \/ \E k \in 1..Len(http) : StreamRaises(k)

SpecServe == InitServe /\ [][NextServe]_vars

-----------------------------------------------------------------------------
\* Properties of the completion handler

\* handler k's read of the backend stream ends in this step: the stream
\* completed, raised, or had yielded no chunk
StreamOver(k) ==
    /\ k \in 1..Len(http)
    /\ http[k].pc = "reading"
    /\ http'[k].pc = "done"

\* the handlers that got a stream from the dispatcher and are done with it
Served(h) == {k \in 1..Len(h) : h[k].pc = "done" /\ ~IsNull(h[k].actualModel)}

\* the step appended exactly one row to request_log
OneRowWritten ==
    /\ Len(request_log') = Len(request_log) + 1
    /\ SubSeq(request_log', 1, Len(request_log)) = request_log

\* C15: request_log and the ledger change only in the step in which a
\* handler's backend stream is over (completed, raised, or empty), for the SSE
\* branch and the other alike; that step appends exactly one row; no step
\* that takes a chunk writes anything; so the log holds one row for each
\* request whose stream is over.
C15_LoggedOnceAtStreamEnd ==
    [][/\ (request_log' # request_log \/ budget_tracking' # budget_tracking)
             => \E k \in 1..Len(http) : StreamOver(k)
       /\ \A k \in 1..Len(http) : StreamOver(k) => OneRowWritten
       /\ Len(http') > Len(http) => request_log' = request_log
       /\ Len(request_log') = Cardinality(Served(http'))
      ]_vars

\* an SSE request took two chunks, its stream is over, and the log has its row
C15_Witness ==
    /\ Len(http) = 1
    /\ http[1].pc = "done"
    /\ http[1].isStreaming
    /\ http[1].chunks = 2
    /\ http[1].status = Some(200)
    /\ Len(request_log) = 1
    /\ request_log[1].success

\* the ledger row of a period after a request of the given cost
RowAfter(ledger, key, costUsd) ==
    IF key \in DOMAIN ledger
    THEN [total_spend |-> ledger[key].total_spend + costUsd,
          request_count |-> ledger[key].request_count + 1]
    ELSE [total_spend |-> costUsd, request_count |-> 1]

\* C16: the row a handler logs has cost_usd = (input_tokens * cost_input +
\* output_tokens * cost_output) / 1,000,000 at the prices of the model record
\* of the dispatcher's stream response, and when that cost is positive the
\* rows of the day and of the month grow by exactly it (prices are held in
\* hundredths, hence the factor 100).
C16_CostOfServingModel ==
    [][\A k \in 1..Len(http) :
          StreamOver(k) =>
             LET served == Val(http[k].actualModel)
                 row == request_log'[Len(request_log')]
                 day == <<"daily", isoDate(now)>>
                 month == <<"monthly", isoMonth(isoDate(now))>>
             IN  /\ row.cost_usd * 1000000 * 100 =
                       row.input_tokens * served.cost_input
                          + row.output_tokens * served.cost_output
                 /\ row.cost_usd > 0 =>
                       /\ budget_tracking'[day] = RowAfter(budget_tracking, day, row.cost_usd)
                       /\ budget_tracking'[month] = RowAfter(budget_tracking, month, row.cost_usd)
                 /\ row.cost_usd = 0 => budget_tracking' = budget_tracking
      ]_vars

\* the first candidate, a free LAN model, failed and the cloud model served:
\* the row's cost is the cloud model's price of the usage, and the day's row
\* holds it
C16_Witness ==
    /\ Len(http) = 1
    /\ http[1].pc = "done"
    /\ Len(request_log) = 1
    /\ Val(http[1].decision).candidates[1].model.cost_output = 0
    /\ Val(http[1].actualModel).model_id = "anthropic/claude-sonnet"
    /\ request_log[1].input_tokens = 1000000
    /\ request_log[1].output_tokens = 200000
    /\ request_log[1].cost_usd = 6
    /\ budget_tracking[<<"daily", isoDate(now)>>] = LedgerRow(6, 1)

\* C17, as the claim states it: the row a handler logs names the model that
\* served the request as selected_model, and a first candidate that fails
\* with a connection-refused error is flagged unhealthy.
C17_LogNamesServingModel ==
    [][/\ \A k \in 1..Len(http) :
            StreamOver(k) =>
               request_log'[Len(request_log')].selected_model
                  = Val(http[k].actualModel).model_id
       /\ (/\ JustFailed
           /\ Val(disp).index = 1
           /\ LastFailure(Val(disp')).error.causeCode = Some("ECONNREFUSED"))
             => ~models'[Val(disp).candidates[1].model.model_id].is_healthy
      ]_vars

-----------------------------------------------------------------------------
\* Handlers that share the ledger

\* the decision of a complex coding request over the LAN and the cloud model
LedgerDecision ==
    LET candidates == rankedList(ServeModels, <<"lan/mbp-m4-32b", "anthropic/claude-sonnet">>)
    IN  RoutingDecision(2, candidates[1].model.model_id,
                        Some(ClassificationResult("complex", "coding", 2000, FALSE)),
                        Null, candidates)

\* a handler that has its stream and has read nothing yet, served by either
\* candidate, with an SSE reply or a plain one
LedgerHandlers ==
    {Handler("reading", Some(LedgerDecision), Some(ServeModels[id]), isStreaming, 0, 0, 0, Null, Null) : id \in {"lan/mbp-m4-32b", "anthropic/claude-sonnet"}, isStreaming \in BOOLEAN}

\* two requests are in flight at once: the event loop runs the continuation
\* of either handler whenever its stream yields, ends or raises
InitLedger ==
    /\ now = StartTime
    /\ models = ServeModels
    /\ provider_rate_limits = SeedRateLimits
    /\ routing_policy = SeedPolicy
    /\ budget_tracking = ServeLedger(StartTime)
    /\ model_health_log = <<>>
    /\ routing_rules = SeedRules
    /\ rulesCache = EmptyCache
    /\ sel = Null
    /\ req = NoRequest
    /\ disp = NoDispatch
    /\ request_log = <<>>
    /\ http \in {<<a, b>> : a \in LedgerHandlers, b \in LedgerHandlers}
    /\ hc = Null
    /\ wire = [open |-> TRUE, out |-> <<Client(TRUE, FALSE, <<>>), Client(TRUE, FALSE, <<>>)>>]
    /\ stderr = <<>>
    /\ sse = <<>>

NextLedger ==
    \/ \E k \in 1..Len(http) : \E usage \in ChunkUsages : StreamChunk(k, usage)
    \/ \E k \in 1..Len(http) : StreamEnds(k)
    \/ \E k \in 1..Len(http) : StreamRaises(k)
    \/ Wait(MaxWait)

SpecLedger == InitLedger /\ [][NextLedger]_vars

\* the request_log row falls in the period of the ledger key
InPeriod(row, key) ==
    \/ key = <<"daily", isoDate(row.request_at)>>
    \/ key = <<"monthly", isoMonth(isoDate(row.request_at))>>

\* the priced rows among the first i rows of the log that fall in the period
PricedIn(log, key, i) == {j \in 1..i : log[j].cost_usd > 0 /\ InPeriod(log[j], key)}

\* the cost of those rows
RECURSIVE spendIn(_, _, _)
spendIn(log, key, i) ==
    IF i = 0 THEN 0
    ELSE spendIn(log, key, i - 1)
            + (IF i \in PricedIn(log, key, i) THEN log[i].cost_usd ELSE 0)

\* the days and months the clock can show
PeriodKeys ==
    UNION {{<<"daily", isoDate(t)>>, <<"monthly", isoMonth(isoDate(t))>>} : t \in StartTime..(StartTime + MaxWait)}

\* C18: whatever the order in which the handlers of concurrent requests take
\* their chunks and finish, the row of each day and of each month holds what it
\* held at the start plus the cost and the number of the priced requests
\* logged in that period (a day's row starts from nothing: total_spend = C,
\* request_count = N), and a period with no priced request has its row as it
\* was, or none: requests of cost 0 change no row.
C18_LedgerSumsPricedRequests ==
    /\ DOMAIN budget_tracking \subseteq PeriodKeys
    /\ \A key \in PeriodKeys :
          LET start == ServeLedger(StartTime)
              N == Cardinality(PricedIn(request_log, key, Len(request_log)))
              C == spendIn(request_log, key, Len(request_log))
          IN  IF N = 0
              THEN /\ key \in DOMAIN budget_tracking <=> key \in DOMAIN start
                   /\ key \in DOMAIN start => budget_tracking[key] = start[key]
              ELSE /\ key \in DOMAIN budget_tracking
                   /\ budget_tracking[key] =
                         IF key \in DOMAIN start
                         THEN LedgerRow(start[key].total_spend + C,
                                        start[key].request_count + N)
                         ELSE LedgerRow(C, N)

\* both requests are done on the start's day, the second handler's row was
\* written first, the two cost 3 and 6: the day's row holds 9 for 2 requests
\* and the month's row grew by the same
C18_Witness ==
    /\ Len(request_log) = 2
    /\ http[1].pc = "done"
    /\ http[2].pc = "done"
    /\ http[1].outputTokens = 200000
    /\ http[2].outputTokens = 0
    /\ request_log[1].cost_usd = 3
    /\ request_log[2].cost_usd = 6
    /\ now = StartTime
    /\ budget_tracking[<<"daily", isoDate(StartTime)>>] = LedgerRow(9, 2)
    /\ budget_tracking[<<"monthly", isoMonth(isoDate(StartTime))>>] = LedgerRow(199, 9)

-----------------------------------------------------------------------------
\* The rule tables the matcher is exercised on

\* the rule tables of the router, and the seed after one more operator edit:
\* a rule for one channel, a rule for long texts, a token limit on the
\* heartbeat rule, the heartbeat rule disabled, and the two catch-all rules
\* disabled
MatchRuleTables ==
    RuleTables
    \cup {SeedRules @@ (12 :> [RoutingRule(12, 1, Null, Null, Null, Null, Null, "classify") EXCEPT !.match_channel = Some("telegram")]),
          SeedRules @@ (13 :> RoutingRule(13, 1, Null, Some(LongTextPattern), Null, Null,
                                          Some("anthropic/claude-sonnet"), "route")),
          [SeedRules EXCEPT ![1].match_token_max = Some(100)],
          [SeedRules EXCEPT ![1].is_enabled = FALSE],
          [SeedRules EXCEPT ![8].is_enabled = FALSE, ![10].is_enabled = FALSE]}

InitMatch ==
    /\ now = StartTime
    /\ routing_rules \in MatchRuleTables
    /\ models = SeedModels
    /\ provider_rate_limits = SeedRateLimits
    /\ routing_policy = SeedPolicy
    /\ budget_tracking = <<>>
    /\ model_health_log = <<>>
    /\ rulesCache = EmptyCache
    /\ sel = Null
    /\ req = NoRequest
    /\ disp = NoDispatch
    /\ request_log = <<>>
    /\ http = <<>>
    /\ hc = Null
    /\ wire = NoWire
    /\ stderr = <<>>
    /\ sse = <<>>

NextMatch ==
    \/ \E request \in Requests : RouteStart(request)
    \/ \E reply \in ServeReplies : RouteClassified(reply)
    \/ RouteEnd

SpecMatch == InitMatch /\ [][NextMatch]_vars

\* every predicate the rule specifies holds of the request
AllSpecifiedHold(rule, metadata) ==
    /\ IsNull(rule.match_source) \/ rule.match_source = metadata.source
    /\ IsNull(rule.match_channel) \/ rule.match_channel = metadata.channel
    /\ IsNull(rule.match_pattern)
          \/ /\ regExpCompiles(Val(rule.match_pattern))
             /\ regexTest(Val(rule.match_pattern),
                          slice(metadata.text_preview, 500))
    /\ IsNull(rule.match_token_max)
          \/ metadata.estimated_tokens <= Val(rule.match_token_max)
    /\ IsNull(rule.match_has_media)
          \/ (metadata.has_media <=> Val(rule.match_has_media) = 1)

\* the enabled rules of the table whose specified predicates all hold
MatchingRules(rules, metadata) ==
    {rules[id] : id \in {i \in DOMAIN rules : rules[i].is_enabled /\ AllSpecifiedHold(rules[i], metadata)}}

\* C21: over a table that was not edited since it was loaded, the matcher's
\* result is a rule of least priority among the enabled rules whose specified
\* predicates all hold (source and channel equal, the pattern compiles and is
\* found, in any letter case, in the first 500 characters of the preview,
\* estimated_tokens <= token_max, has_media equal; a predicate that is null is
\* a wildcard), with that rule's action and target; it is no_match exactly
\* when there is no such rule.
C21_FirstMatchingEnabledRule ==
    req # NoRequest =>
       LET r == Val(req)
           matching == MatchingRules(routing_rules, r.metadata)
       IN  /\ r.tier1.matched <=> matching # {}
           /\ r.tier1.matched =>
                 /\ r.tier1.rule \in matching
                 /\ \A o \in matching : r.tier1.rule.priority <= o.priority
                 /\ r.tier1.action = r.tier1.rule.target_action
                 /\ r.tier1.target_model_id = r.tier1.rule.target_model_id

\* the /STATUS command, in capitals after a system prompt: the status rule
\* matched, two catch-all rules of greater priority number match as well, and
\* the heartbeat rule before it does not
C21_Witness ==
    /\ req # NoRequest
    /\ Val(req).tier1.matched
    /\ Val(req).tier1.rule.rule_id = 4
    /\ Val(req).metadata.text_preview.chars = chars_status
    /\ Cardinality(MatchingRules(routing_rules, Val(req).metadata)) >= 2

-----------------------------------------------------------------------------
\* The rules cache under edits of the rule table

\* invalidateRulesCache()
InvalidateRulesCache ==
    /\ rulesCache' = EmptyCache
    /\ UNCHANGED <<serveVars, models, provider_rate_limits, routing_policy, budget_tracking,
                   model_health_log, routing_rules, now, sel, req, disp>>

\* a heartbeat and a text no pattern matches
CacheRequests ==
    {ChatRequest(<<Message("user", Text(chars_ping, 0))>>, Some("heartbeat"), Null),
     ChatRequest(<<Message("user", Text(chars_statusx, 0))>>, Null, Null)}

InitCache ==
    /\ now = StartTime
    /\ routing_rules = SeedRules
    /\ models = SeedModels
    /\ provider_rate_limits = SeedRateLimits
    /\ routing_policy = SeedPolicy
    /\ budget_tracking = <<>>
    /\ model_health_log = <<>>
    /\ rulesCache = EmptyCache
    /\ sel = Null
    /\ req = NoRequest
    /\ disp = NoDispatch
    /\ request_log = <<>>
    /\ http = <<>>
    /\ hc = Null
    /\ wire = NoWire
    /\ stderr = <<>>
    /\ sse = <<>>

NextCache ==
    \/ \E request \in CacheRequests : RouteStart(request)
    \/ \E reply \in ServeReplies : RouteClassified(reply)
    \/ RouteEnd
    \/ \E d \in TickSteps : Tick(d)
    \/ \E id \in {1, 10} : DisableRule(id)
    \/ InvalidateRulesCache

SpecCache == InitCache /\ [][NextCache]_vars

\* matchTier1Rules is called in this step
MatcherCalled == req = NoRequest /\ req' # NoRequest

\* the enabled rules of the table in ascending priority
EnabledByPriority(rules, list) ==
    /\ {list[i] : i \in 1..Len(list)} = {rules[id] : id \in {i \in DOMAIN rules : rules[i].is_enabled}}
    /\ Len(list) = Cardinality({i \in DOMAIN rules : rules[i].is_enabled})
    /\ \A i \in 1..Len(list) : \A j \in i..Len(list) : list[i].priority <= list[j].priority

\* C22: a call of the matcher less than 5 s after the load, with no
\* invalidation since, evaluates the cached list and leaves the cache as it
\* is, whatever the table holds by then; a call after an invalidation or 5 s
\* or more after the load evaluates the enabled rules of the table as it is
\* now and stamps the cache with the time of the call; and nothing else
\* writes the cache but the invalidation, which empties it.  So a list the
\* matcher evaluates is a snapshot of the table less than 5 s old.
C22_CacheStalenessBounded ==
    [][/\ (MatcherCalled /\ ~IsNull(rulesCache.cachedRules)
                         /\ now * 1000 - rulesCache.cacheTimestamp < 5000)
             => /\ rulesCache' = rulesCache
                /\ Val(req').rules = Val(rulesCache.cachedRules)
       /\ (MatcherCalled /\ (IsNull(rulesCache.cachedRules)
                              \/ now * 1000 - rulesCache.cacheTimestamp >= 5000))
             => /\ rulesCache'.cacheTimestamp = now * 1000
                /\ EnabledByPriority(routing_rules, Val(rulesCache'.cachedRules))
                /\ Val(req').rules = Val(rulesCache'.cachedRules)
       /\ (~MatcherCalled /\ rulesCache' # rulesCache) => rulesCache' = EmptyCache
       /\ ~IsNull(rulesCache'.cachedRules) => rulesCache'.cacheTimestamp <= now' * 1000
      ]_vars

\* the heartbeat rule was disabled while the cache held it; 5 s after the
\* load a heartbeat arrived, the matcher loaded the table again and matched
\* the catch-all rule
C22_Witness ==
    /\ req # NoRequest
    /\ now = StartTime + 5
    /\ rulesCache.cacheTimestamp = now * 1000
    /\ ~routing_rules[1].is_enabled
    /\ Val(req).metadata.source = Some("heartbeat")
    /\ Val(req).tier1.matched
    /\ Val(req).tier1.rule.rule_id = 10

\* less than 5 s after the load a heartbeat matched the cached heartbeat
\* rule, which the table no longer has enabled
C22_WitnessStale ==
    /\ req # NoRequest
    /\ now > StartTime
    /\ rulesCache.cacheTimestamp = StartTime * 1000
    /\ ~routing_rules[1].is_enabled
    /\ Val(req).tier1.matched
    /\ Val(req).tier1.rule.rule_id = 1

-----------------------------------------------------------------------------
\* Properties of the SSE branch

\* the events data: {chunk 1}, ..., data: {chunk n}
ChunkEvents(n) == [i \in 1..n |-> ChunkEvent(i)]

\* C23: in the SSE branch each chunk the stream yields is written as one data
\* event, in the stream's order and with nothing in between; when the stream
\* is over exactly one more event is written, data: [DONE] when the request is
\* logged with success = true (the stream ended) and the error event when it
\* is logged with success = false (the stream raised); nothing is written
\* after that event.
C23_ChunksThenDoneOrError ==
    [][\A k \in 1..Len(http) :
          LET h == http[k]
              events == wire.out[k].events
              after == wire'.out[k].events
          IN  /\ (h.pc = "reading" /\ h.isStreaming) => events = ChunkEvents(h.chunks)
              /\ (h.pc = "reading" /\ h.isStreaming /\ http'[k].chunks = h.chunks + 1)
                    => after = ChunkEvents(h.chunks + 1)
              /\ (StreamOver(k) /\ h.isStreaming)
                    => /\ Len(after) = h.chunks + 1
                       /\ SubSeq(after, 1, h.chunks) = ChunkEvents(h.chunks)
                       /\ after[Len(after)] \in {DoneEvent, ErrorEvent}
                       /\ after[Len(after)] = DoneEvent
                             <=> request_log'[Len(request_log')].success
                       /\ after[Len(after)] = ErrorEvent
                             <=> ~request_log'[Len(request_log')].success
              /\ h.pc = "done" => wire'.out[k] = wire.out[k]
      ]_vars

\* the stream yielded two chunks and raised: the client got the two chunk
\* events and the error event, and the row says success = false
C23_Witness ==
    /\ Len(http) = 1
    /\ http[1].pc = "done"
    /\ http[1].isStreaming
    /\ Len(request_log) = 1
    /\ wire.out[1].events = <<ChunkEvent(1), ChunkEvent(2), ErrorEvent>>
    /\ ~request_log[1].success

\* C24: a handler of a request with stream = false whose backend stream is
\* over without a chunk appends the one row success = false, input_tokens =
\* 0, output_tokens = 0, cost_usd = 0 and leaves the ledger as it is; its
\* reply is 502 when the stream ended (and the 500 of the rethrown error when
\* the stream raised).
C24_EmptyStreamIs502 ==
    [][\A k \in 1..Len(http) :
          (StreamOver(k) /\ ~http[k].isStreaming /\ http[k].chunks = 0)
          => /\ OneRowWritten
             /\ ~request_log'[Len(request_log')].success
             /\ request_log'[Len(request_log')].input_tokens = 0
             /\ request_log'[Len(request_log')].output_tokens = 0
             /\ request_log'[Len(request_log')].cost_usd = 0
             /\ budget_tracking' = budget_tracking
             /\ http'[k].status \in {Some(502), Some(500)}
             /\ StreamEnds(k) => http'[k].status = Some(502)
      ]_vars

\* the priced cloud model served a request with stream = false, its stream
\* ended without a chunk: the reply is 502, the row is a failure at no cost
C24_Witness ==
    /\ Len(http) = 1
    /\ http[1].pc = "done"
    /\ ~http[1].isStreaming
    /\ http[1].chunks = 0
    /\ http[1].status = Some(502)
    /\ Val(http[1].actualModel).cost_input > 0
    /\ Len(request_log) = 1
    /\ ~request_log[1].success
    /\ request_log[1].cost_usd = 0

-----------------------------------------------------------------------------
\* Clients that disconnect

\* the client of the request in routeRequest or routeWithRetry goes away
\* while the handler awaits the classifier's or an adapter's fetch: the
\* handler has no 'close' listener yet
ClientClosesEarly ==
    /\ req # NoRequest
    /\ \/ Val(req).pc = "classifying"
       \/ disp # NoDispatch /\ Val(disp).pc = "sending"
    /\ wire.open
    /\ wire' = [wire EXCEPT !.open = FALSE]
    /\ UNCHANGED <<models, provider_rate_limits, routing_policy, budget_tracking,
                   model_health_log, ruleVars, now, sel, req, disp, request_log,
                   http, hc,
                   stderr, sse>>

\* a 'close' of the k-th handler's client that no listener hears
ClientCloses_NoListener(k) ==
    /\ k \in 1..Len(http)
    /\ http[k].pc = "reading"
    /\ wire.out[k].open
    /\ wire' = [wire EXCEPT !.out[k].open = FALSE]
    /\ UNCHANGED <<models, provider_rate_limits, routing_policy, budget_tracking,
                   model_health_log, ruleVars, now, sel, req, disp, request_log,
                   http, hc,
                   stderr, sse>>

\* the client of the k-th handler goes away while the handler reads the
\* backend stream: request.raw emits 'close' and the listener calls
\* streamResponse.abort()
ClientCloses(k) ==
    /\ k \in 1..Len(http)
    /\ http[k].pc = "reading"
    /\ wire.out[k].open
    /\ wire' = [wire EXCEPT !.out[k].open = FALSE, !.out[k].aborted = TRUE]
    /\ UNCHANGED <<models, provider_rate_limits, routing_policy, budget_tracking,
                   model_health_log, ruleVars, now, sel, req, disp, request_log,
                   http, hc,
                   stderr, sse>>

\* one request, whose client may go away at any await of its handler
NextClient ==
    \/ /\ http = <<>>
       /\ \E request \in ServeRequests : RouteStart(request)
    \/ \E reply \in ServeReplies : RouteClassified(reply)
    \/ ReplyNoRoute
    \/ HandlerDispatches
    \/ SendSucceeds
    \/ SendFails
    \/ ReplyAllFailed
    \/ \E isStreaming \in BOOLEAN : HandlerReads(isStreaming)
    \/ \E k \in 1..Len(http) : \E usage \in ChunkUsages : StreamChunk(k, usage)
    \/ \E k \in 1..Len(http) : StreamEnds(k)
    \/ \E k \in 1..Len(http) : StreamRaises(k)
    \/ ClientClosesEarly
    \/ \E k \in 1..Len(http) : ClientCloses(k)

SpecClient == InitServe /\ [][NextClient]_vars

\* C25, as the claim states it: no handler reads a backend stream for a
\* client that is gone without abort() having been called.
C25_AbortOnAnyDisconnect ==
    \A k \in 1..Len(http) :
       (http[k].pc = "reading" /\ ~wire.out[k].open) => wire.out[k].aborted

\* C25: when the client of a handler that reads a backend stream goes away,
\* abort() is called in that step; it is called in no other step, so for a
\* client that went away while its request was routed or dispatched abort()
\* is never called.
C25_AbortOnDisconnectWhileReading ==
    [][\A k \in 1..Len(http) :
          /\ (http[k].pc = "reading" /\ wire.out[k].open /\ ~wire'.out[k].open)
                => wire'.out[k].aborted
          /\ (~wire.out[k].aborted /\ wire'.out[k].aborted)
                => /\ http[k].pc = "reading"
                   /\ ~IsNull(http[k].actualModel)
                   /\ wire.out[k].open
                   /\ ~wire'.out[k].open
          /\ ~wire.out[k].open => wire'.out[k] = [wire.out[k] EXCEPT !.events = wire'.out[k].events]
      ]_vars

\* the client went away after the first chunk of an SSE reply: abort() was
\* called, and the stream raised
C25_Witness ==
    /\ Len(http) = 1
    /\ http[1].pc = "done"
    /\ http[1].chunks = 1
    /\ wire.out[1].aborted
    /\ wire.out[1].events = <<ChunkEvent(1), ErrorEvent>>

-----------------------------------------------------------------------------
\* The health loop when a pass throws

\* checkAllModels throws: its SELECT fails before any probe is sent, or a
\* write fails in the loop over the settled probes after the first done
\* outcomes were recorded; run() logs the error and clears the flag in its
\* finally block
PassThrows ==
    /\ ~IsNull(hc)
    /\ Val(hc).running
    /\ \E done \in 0..(Len(Val(hc).probing) - 1) :
       \E results \in [1..done -> {Fulfilled, Rejected(chars_FetchFailed)}] :
         LET after == markOutcomes(HealthTables(models, model_health_log),
                                   SubSeq(Val(hc).probing, 1, done), results, 1, now)
         IN  /\ models' = after.rows
             /\ model_health_log' = after.log
    /\ hc' = Some(HealthLoop(FALSE, Val(hc).active - 1, <<>>, Val(hc).runs + 1))
    /\ UNCHANGED <<provider_rate_limits, routing_policy, budget_tracking,
                   ruleVars, now, sel, req, disp, request_log, http, wire,
                   stderr, sse>>

NextLoop ==
    \/ RunHealthCheck
    \/ ProbesSettled
    \/ PassThrows
    \/ \E d \in TickSteps : Tick(d)

SpecLoop == InitHealth /\ [][NextLoop]_vars

\* C26: at most one call of checkAllModels is in progress, and the flag is
\* set exactly while one is: a tick while the flag is set returns with
\* nothing started and nothing kept for later, the flag is clear after every
\* pass, one that threw included, and a tick that finds it clear starts a
\* pass.
C26_NoOverlappingPasses ==
    LET loop == loopOf(hc)
        tick == run(loop, enabledModels(models))
    IN  /\ loop.active \in {0, 1}
        /\ loop.running <=> loop.active = 1
        /\ loop.running => tick = loop
        /\ ~loop.running => tick.running /\ tick.active = 1
        /\ ~loop.running => loop.probing = <<>>

\* a pass threw after it had recorded the first of two outcomes; the flag was
\* cleared and the next tick has started a pass
C26_Witness ==
    /\ ~IsNull(hc)
    /\ Val(hc).runs = 1
    /\ Val(hc).running
    /\ Val(hc).active = 1
    /\ Len(Val(hc).probing) = 2
    /\ Len(model_health_log) = 1

-----------------------------------------------------------------------------
\* Outbound calls and their timeouts

\* the classifier answers, or its fetch is aborted by the timer
TimeoutReplies == ServeReplies \cup {FetchRejected}

\* one request and the first pass of the health loop side by side
NextTimeouts ==
    \/ /\ IsNull(hc)
       /\ RunHealthCheck
    \/ ProbesSettled
    \/ /\ http = <<>>
       /\ \E request \in ServeRequests : RouteStart(request)
    \/ \E reply \in TimeoutReplies : RouteClassified(reply)
    \/ ReplyNoRoute
    \/ HandlerDispatches
    \/ SendSucceeds
    \/ SendFails
    \/ ReplyAllFailed
    \/ \E isStreaming \in BOOLEAN : HandlerReads(isStreaming)

\* What the timers guarantee.  Each probe's fetch carries
\* AbortSignal.timeout(5000), so Promise.allSettled settles; the
\* classifier's fetch carries AbortSignal.timeout(timeoutMs), so
\* classifyRequest returns; the handler's own continuations run when their
\* awaits resolve.  The adapters' fetch carries the signal of an
\* AbortController that no timer aborts: whether sendRequest ever settles is
\* up to the peer, and no fairness is assumed of SendSucceeds and SendFails.
SpecTimeouts ==
    /\ InitServe
    /\ [][NextTimeouts]_vars
    /\ WF_vars(ProbesSettled)
    /\ WF_vars(\E reply \in TimeoutReplies : RouteClassified(reply))
    /\ WF_vars(ReplyNoRoute)
    /\ WF_vars(HandlerDispatches)
    /\ WF_vars(ReplyAllFailed)
    /\ WF_vars(\E isStreaming \in BOOLEAN : HandlerReads(isStreaming))

ProbesPending == loopOf(hc).running

Classifying == IF req = NoRequest THEN FALSE ELSE Val(req).pc = "classifying"

Dispatching == IF disp = NoDispatch THEN FALSE ELSE Val(disp).pc = "sending"

\* C27, as the claim states it: a probe tick, a classification and a
\* dispatch each come to an end, whatever the remote peers do.
C27_OutboundCallsTerminate ==
    /\ ProbesPending ~> ~ProbesPending
    /\ Classifying ~> ~Classifying
    /\ Dispatching ~> ~Dispatching

-----------------------------------------------------------------------------
\* Requests whose candidates all fail

\* the classifier reports a complex coding task, or a sensitive reasoning task
ExhaustReplies ==
    ServeReplies
    \cup {FetchBody(Some(Some(JsonObject(JsonString("reasoning"), JsonString("reasoning"),
                                          JsonNumber(4000), JsonBoolean(TRUE)))))}

\* one request, a heartbeat or a chat message, up to the handler's reply or
\* its first read of the stream
NextExhaust ==
    \/ /\ http = <<>>
       /\ \E request \in CacheRequests : RouteStart(request)
    \/ \E reply \in ExhaustReplies : RouteClassified(reply)
    \/ ReplyNoRoute
    \/ HandlerDispatches
    \/ SendSucceeds
    \/ SendFails
    \/ ReplyAllFailed
    \/ \E isStreaming \in BOOLEAN : HandlerReads(isStreaming)

SpecExhaust == InitServe /\ [][NextExhaust]_vars

\* the models whose adapters routeWithRetry has called
Attempted(d) == {d.candidates[d.calls[i]].model.model_id : i \in 1..Len(d.calls)}

\* C28, as the claim states it: when the handler replies 503 'All backend
\* models failed', every candidate of the decision was attempted, and so was
\* the policy's fallback model if it is registered, enabled and healthy.
C28_FallbackTriedBeforeFailing ==
    [][(/\ disp # NoDispatch
        /\ Val(disp).pc = "thrown"
        /\ Len(http') = Len(http) + 1
        /\ http'[Len(http')].status = Some(503))
       => /\ \A i \in 1..Len(Val(disp).candidates) :
                Val(disp).candidates[i].model.model_id \in Attempted(Val(disp))
          /\ getFallbackCandidate(models, routing_policy) # <<>>
                => Val(routing_policy.fallback_model_id) \in Attempted(Val(disp))
      ]_vars

-----------------------------------------------------------------------------
\* The server's onRequest hook and the routing headers (src/server.ts)

TRUSTED_SOURCES == {"heartbeat", "cron", "webhook"}

\* the two routing headers of a request, each absent or a string
Headers(source, channel) == [source |-> source, channel |-> channel]

\* JavaScript's truth test on a header: undefined and '' are falsy
truthy(value) == ~IsNull(value) /\ Val(value) # ""

\* if (source && !TRUSTED_SOURCES.has(source)) delete request.headers['x-router-source']
stripUntrusted(headers) ==
    IF truthy(headers.source) /\ Val(headers.source) \notin TRUSTED_SOURCES
    THEN [headers EXCEPT !.source = Null]
    ELSE headers

\* the handler's chatRequest: source and channel are read from the headers
chatRequestOf(messages, headers) == ChatRequest(messages, headers.source, headers.channel)

\* an authenticated POST passes the hook and its handler routes it
Receive(messages, headers) == RouteStart(chatRequestOf(messages, stripUntrusted(headers)))

\* x-router-source absent, trusted, unknown, differing in case, or empty
SourceHeaders ==
    {Null, Some("heartbeat"), Some("cron"), Some("webhook"), Some("evil"),
     Some("Heartbeat"), Some("")}

ChannelHeaders == {Null, Some("telegram")}

RequestHeaders == {Headers(source, channel) : source \in SourceHeaders, channel \in ChannelHeaders}

RequestMessages == {request.messages : request \in Requests}

NextHeaders ==
    \/ \E messages \in RequestMessages, headers \in RequestHeaders : Receive(messages, headers)
    \/ \E reply \in ServeReplies : RouteClassified(reply)
    \/ RouteEnd

SpecHeaders == InitMatch /\ [][NextHeaders]_vars

\* C29, as the claim states it: the source tag of the request being routed
\* is absent or one of heartbeat, cron, webhook.
C29_SourceIsTrustedOrAbsent ==
    req # NoRequest =>
        \/ IsNull(Val(req).request.source)
        \/ Val(req).request.source \in {Some(source) : source \in TRUSTED_SOURCES}

-----------------------------------------------------------------------------
\* logRequest when a statement on the database throws

\* the statement of logRequest that throws, if any: the INSERT into
\* request_log, the daily upsert or the monthly upsert
DbFaults == {"none", "insert", "daily", "monthly"}

\* the line the catch block writes
LogFailure == "[logRequest] Failed to log request"

\* whether the faulty statement is run: the upserts are run for a positive cost
logThrows(actualModel, inTok, outTok, fault) ==
    \/ fault = "insert"
    \/ fault \in {"daily", "monthly"} /\ calculateCost(actualModel, inTok, outTok) > 0

\* the statements of the try block up to the one that throws: each runs in
\* its own implicit transaction
logStatements(log, ledger, decision, actualModel, inTok, outTok, success, t, fault) ==
    LET costUsd == calculateCost(actualModel, inTok, outTok)
        row == RequestLogRow(decision, inTok, outTok, costUsd, success, t)
    IN  IF ~logThrows(actualModel, inTok, outTok, fault)
        THEN logRequest(log, ledger, decision, actualModel, inTok, outTok, success, t)
        ELSE IF fault = "insert" THEN LogTables(log, ledger)
        ELSE IF fault = "daily" THEN LogTables(Append(log, row), ledger)
        ELSE LogTables(Append(log, row), upsertBudget(ledger, <<"daily", isoDate(t)>>, costUsd))

\* what a call of logRequest leaves: the tables, whether it raised, and what
\* it wrote to stderr
Logged(tables, raised, report) ==
    [log |-> tables.log, ledger |-> tables.ledger, raised |-> raised, report |-> report]

\* logRequest without its try/catch
logRequestOnDb_NoCatch(log, ledger, decision, actualModel, inTok, outTok, success, t, fault) ==
    Logged(logStatements(log, ledger, decision, actualModel, inTok, outTok, success, t, fault),
           logThrows(actualModel, inTok, outTok, fault), <<>>)

\* logRequest on a database that may fail: try { ... } catch (err) {
\* process.stderr.write(...) }
logRequestOnDb(log, ledger, decision, actualModel, inTok, outTok, success, t, fault) ==
    Logged(logStatements(log, ledger, decision, actualModel, inTok, outTok, success, t, fault),
           FALSE,
           IF logThrows(actualModel, inTok, outTok, fault) THEN <<LogFailure>> ELSE <<>>)

\* the backend stream of handler k ends, on a database with the given fault.
\* Were logRequest to raise, the SSE branch would let it out of its finally
\* block after the reply has ended, and the other branch would catch it at
\* line 201, call logRequest(0, 0, false) and rethrow.
StreamEndsOnDb(k, fault) ==
    /\ k \in 1..Len(http)
    /\ http[k].pc = "reading"
    /\ LET h == http[k]
           none == ~h.isStreaming /\ h.chunks = 0
           inTok == IF h.isStreaming THEN h.inputTokens
                    ELSE usageOrZero(h.lastUsage).prompt_tokens
           outTok == IF h.isStreaming THEN h.outputTokens
                     ELSE usageOrZero(h.lastUsage).completion_tokens
           first == logRequestOnDb(request_log, budget_tracking, Val(h.decision),
                                   Val(h.actualModel), inTok, outTok, ~none, now, fault)
           caught == first.raised /\ ~h.isStreaming
           second == logRequestOnDb(first.log, first.ledger, Val(h.decision),
                                    Val(h.actualModel), 0, 0, FALSE, now, fault)
           last == IF caught THEN second ELSE first
       IN  /\ request_log' = last.log
           /\ budget_tracking' = last.ledger
           /\ stderr' = stderr \o first.report \o (IF caught THEN second.report ELSE <<>>)
           /\ http' = [http EXCEPT ![k] =
                          IF first.raised
                          THEN Handler("raised", h.decision, h.actualModel, h.isStreaming,
                                       inTok, outTok, h.chunks, h.lastUsage,
                                       Some(IF h.isStreaming THEN 200 ELSE 500))
                          ELSE Handler("done", h.decision, h.actualModel, h.isStreaming,
                                       inTok, outTok, h.chunks, h.lastUsage,
                                       Some(IF none THEN 502 ELSE 200))]
    /\ wire' = IF http[k].isStreaming THEN written(wire, k, DoneEvent) ELSE wire
    /\ UNCHANGED <<models, provider_rate_limits, routing_policy, model_health_log,
                   ruleVars, now, sel, req, disp, hc, sse>>

\* the backend stream of handler k raises, on a database with the given fault
StreamRaisesOnDb(k, fault) ==
    /\ k \in 1..Len(http)
    /\ http[k].pc = "reading"
    /\ LET h == http[k]
           inTok == IF h.isStreaming THEN h.inputTokens ELSE 0
           outTok == IF h.isStreaming THEN h.outputTokens ELSE 0
           first == logRequestOnDb(request_log, budget_tracking, Val(h.decision),
                                   Val(h.actualModel), inTok, outTok, FALSE, now, fault)
       IN  /\ request_log' = first.log
           /\ budget_tracking' = first.ledger
           /\ stderr' = stderr \o first.report
           /\ http' = [http EXCEPT ![k] =
                          Handler(IF first.raised THEN "raised" ELSE "done",
                                  h.decision, h.actualModel, h.isStreaming,
                                  inTok, outTok, h.chunks, h.lastUsage,
                                  Some(IF h.isStreaming THEN 200 ELSE 500))]
    /\ wire' = IF http[k].isStreaming THEN written(wire, k, ErrorEvent) ELSE wire
    /\ UNCHANGED <<models, provider_rate_limits, routing_policy, model_health_log,
                   ruleVars, now, sel, req, disp, hc, sse>>

NextFaults ==
    \/ /\ Len(http) < MaxServed
       /\ \E request \in ServeRequests : RouteStart(request)
    \/ \E reply \in ServeReplies : RouteClassified(reply)
    \/ ReplyNoRoute
    \/ HandlerDispatches
    \/ SendSucceeds
    \/ SendFails
    \/ ReplyAllFailed
    \/ \E isStreaming \in BOOLEAN : HandlerReads(isStreaming)
    \/ \E k \in 1..Len(http) : \E usage \in ChunkUsages : StreamChunk(k, usage)
    \/ \E k \in 1..Len(http) : \E fault \in DbFaults : StreamEndsOnDb(k, fault)
    \/ \E k \in 1..Len(http) : \E fault \in DbFaults : StreamRaisesOnDb(k, fault)

SpecFaults == InitServe /\ [][NextFaults]_vars

\* a statement of logRequest threw in this step: the catch block's line is new
LogFailed == Len(stderr') = Len(stderr) + 1 /\ stderr'[Len(stderr')] = LogFailure

\* C30: when a statement of logRequest throws while handler k ends its read,
\* the failure is written to stderr, the handler does not raise, and the
\* reply and the events on the wire are those of the same step on a sound
\* database: 502 for an empty non-streaming read, 500 for one that raised,
\* 200 otherwise, and [DONE] or the error event on an SSE reply.
C30_LogFailureIsSwallowed ==
    [][\A k \in 1..Len(http) : \A fault \in DbFaults \ {"none"} :
          LET h == http[k]
              ended == StreamEndsOnDb(k, fault)
              raised == StreamRaisesOnDb(k, fault)
              inTok == IF h.isStreaming THEN h.inputTokens
                       ELSE IF ended THEN usageOrZero(h.lastUsage).prompt_tokens ELSE 0
              outTok == IF h.isStreaming THEN h.outputTokens
                        ELSE IF ended THEN usageOrZero(h.lastUsage).completion_tokens ELSE 0
          IN  (ended \/ raised) =>
                /\ http'[k].pc = "done"
                /\ http'[k].status =
                      Some(IF h.isStreaming THEN 200
                           ELSE IF raised THEN 500
                           ELSE IF h.chunks = 0 THEN 502 ELSE 200)
                /\ wire' = IF h.isStreaming
                           THEN written(wire, k, IF ended THEN DoneEvent ELSE ErrorEvent)
                           ELSE wire
                /\ logThrows(Val(h.actualModel), inTok, outTok, fault) <=> LogFailed
                /\ ~logThrows(Val(h.actualModel), inTok, outTok, fault) => stderr' = stderr
      ]_vars

\* the insert of a non-streaming request that would have been answered 200
\* has thrown: the reply is 200, nothing was logged, stderr has the line
C30_Witness ==
    /\ Len(http) = 1
    /\ http[1].pc = "done"
    /\ ~http[1].isStreaming
    /\ http[1].status = Some(200)
    /\ request_log = <<>>
    /\ stderr = <<LogFailure>>

-----------------------------------------------------------------------------
\* Failures the catch block of routeWithRetry has no branch for

chars_MissingApiKey == <<"M", "i", "s", "s", "i", "n", "g", " ", "A", "P", "I", " ", "k", "e", "y", " ", "f", "o", "r", " ", "a", "n", "t", "h", "r", "o", "p", "i", "c", "/", "c", "l", "a", "u", "d", "e", "-", "s", "o", "n", "n", "e", "t", " ", "(", "e", "n", "v", ":", " ", "A", "N", "T", "H", "R", "O", "P", "I", "C", "_", "A", "P", "I", "_", "K", "E", "Y", ")">>

\* AnthropicBackend.sendRequest with no key in the environment:
\* throw new Error(`Missing API key for ${model.model_id} (env: ${model.api_key_env})`)
missingApiKeyError == ErrorRecord("Error", Null, Null, Null, chars_MissingApiKey)

\* the Anthropic adapter is called while its key is not set
SendWithoutKey ==
    /\ disp # NoDispatch
    /\ Val(disp).pc = "sending"
    /\ Val(disp).candidates[Val(disp).index].model.model_id = "anthropic/claude-sonnet"
    /\ CandidateFails(missingApiKeyError)

NextFailures ==
    \/ \E ids \in CandidateIdLists : DispatchStart(rankedList(models, ids))
    \/ SendSucceeds
    \/ SendFails
    \/ SendWithoutKey

SpecFailures == InitDispatch /\ [][NextFailures]_vars

\* the error of the adapter call that failed last
lastError(d) == d.outcomes[Len(d.outcomes)].error

\* the error is none of a rate limit, a timeout or connection failure, and a
\* server error
Unclassified(err) == ~is429(err) /\ ~isTimeout(err) /\ ~isServerError(err)

\* C31: a candidate's failure that is none of the three kinds leaves the
\* models table, the health log and the rate-limit table as they were, and
\* the dispatcher calls the next candidate, or throws after the last one.
C31_UnclassifiedFailureWritesNothing ==
    [][(/\ disp # NoDispatch
        /\ Val(disp).pc = "sending"
        /\ disp' # NoDispatch
        /\ Len(Val(disp').outcomes) = Len(Val(disp).outcomes) + 1
        /\ ~Val(disp').outcomes[Len(Val(disp').outcomes)].ok
        /\ Unclassified(lastError(Val(disp'))))
       => /\ models' = models
          /\ model_health_log' = model_health_log
          /\ provider_rate_limits' = provider_rate_limits
          /\ IF Val(disp).index < Len(Val(disp).candidates)
             THEN /\ Val(disp').pc = "sending"
                  /\ Val(disp').index = Val(disp).index + 1
             ELSE Val(disp').pc = "thrown"
      ]_vars

\* the second of three candidates failed for want of a key, and the third is
\* being called
C31_Witness ==
    /\ disp # NoDispatch
    /\ Val(disp).pc = "sending"
    /\ Val(disp).index = 3
    /\ lastError(Val(disp)) = missingApiKeyError

\* a 400 answer, 'Bad Request', ended the only candidate's call
C31_WitnessBadRequest ==
    /\ disp # NoDispatch
    /\ Val(disp).pc = "thrown"
    /\ Len(Val(disp).outcomes) = 1
    /\ lastError(Val(disp)).status = Some(400)

-----------------------------------------------------------------------------
\* Tier-1 rules that reject or fall through

\* the rule does not resolve the request at Tier 1 and does not reject it
RuleFallsThrough(rule) ==
    \/ rule.target_action \in {"classify", "queue"}
    \/ /\ rule.target_action \in {"route", "route_self"}
       /\ \/ IsNull(rule.target_model_id)
          \/ Val(rule.target_model_id) \notin DOMAIN models

\* C32: when the first matching rule rejects, routeRequest throws 'Request
\* rejected by routing rule' and the classifier is not called; when it has
\* action classify or queue, or routes to no model or to an unregistered one,
\* the classifier is called, Tier 1 raises nothing, and a tier-2 decision
\* carries that rule's id.
C32_RejectOrFallThrough ==
    req # NoRequest =>
       \A i \in 1..Len(Val(req).rules) :
          LET r == Val(req)
              rule == r.rules[i]
          IN  IsFirstMatch(rule, r) =>
                /\ rule.target_action = "reject" =>
                      /\ r.pc = "thrown"
                      /\ r.error = Some(NoAvailableModelError("Request rejected by routing rule"))
                      /\ r.classifierCalls = 0
                      /\ IsNull(r.classification)
                /\ RuleFallsThrough(rule) =>
                      /\ r.classifierCalls = 1
                      /\ r.pc = "classifying" \/ ~IsNull(r.classification)
                      /\ r.error # Some(NoAvailableModelError("Request rejected by routing rule"))
                      /\ (r.pc = "returned" /\ Val(r.decision).tier_used = 2)
                            => Val(r.decision).rule_id = Some(rule.rule_id)
                      /\ r.pc = "returned" => Val(r.decision).tier_used \in {2, 3}

\* the heartbeat rule names a model that is not registered, and the request
\* got a tier-2 decision with that rule's id
C32_Witness ==
    /\ req # NoRequest
    /\ Val(req).pc = "returned"
    /\ Val(Val(req).decision).tier_used = 2
    /\ Val(req).tier1.matched
    /\ Val(req).tier1.action = "route_self"
    /\ Val(req).tier1.target_model_id = Some("ghost/model")
    /\ Val(Val(req).decision).rule_id = Some(Val(req).tier1.rule.rule_id)

\* the heartbeat rule rejects the request
C32_WitnessReject ==
    /\ req # NoRequest
    /\ Val(req).pc = "thrown"
    /\ Val(req).tier1.matched
    /\ Val(req).tier1.action = "reject"

-----------------------------------------------------------------------------
\* Recovery of a model by the health checker

\* a pass of the health checker starts in this step
PassStarts ==
    /\ IsNull(hc) \/ ~Val(hc).running
    /\ ~IsNull(hc')
    /\ Val(hc').running

\* a pass of the health checker completes in this step
PassCompletes ==
    /\ ~IsNull(hc)
    /\ Val(hc).running
    /\ ~Val(hc').running
    /\ Val(hc').runs = Val(hc).runs + 1

\* C33: a pass probes every model that is enabled when it starts, whatever
\* its healthy flag; when it completes it has appended one row per probed
\* model, and every model whose probe succeeded has a row with
\* consecutive_failures = 0 and its healthy flag true.
C33_SuccessfulProbeRecovers ==
    [][/\ PassStarts =>
             {Val(hc').probing[i] : i \in 1..Len(Val(hc').probing)}
                = {id \in DOMAIN models : models[id].is_enabled}
       /\ PassCompletes =>
             /\ Len(model_health_log') = Len(model_health_log) + Len(Val(hc).probing)
             /\ \A i \in 1..Len(Val(hc).probing) :
                   LET row == model_health_log'[Len(model_health_log) + i]
                       id == Val(hc).probing[i]
                   IN  /\ row.model_id = id
                       /\ row.is_healthy =>
                             /\ row.consecutive_failures = 0
                             /\ models'[id].is_healthy
                             /\ models'[id].is_enabled
      ]_vars

\* a model that three failures in a row had made unhealthy answered its
\* probe: its last row counts 0 and it is healthy again
C33_Witness ==
    /\ ~IsNull(hc)
    /\ ~Val(hc).running
    /\ models["lan/mbp-m4-32b"].is_healthy
    /\ \E i \in 1..Len(model_health_log) :
          /\ model_health_log[i].model_id = "lan/mbp-m4-32b"
          /\ model_health_log[i].consecutive_failures >= UNHEALTHY_THRESHOLD
          /\ \E j \in (i + 1)..Len(model_health_log) :
                /\ model_health_log[j].model_id = "lan/mbp-m4-32b"
                /\ model_health_log[j].is_healthy
                /\ model_health_log[j].consecutive_failures = 0
                /\ \A k \in (j + 1)..Len(model_health_log) :
                      model_health_log[k].model_id # "lan/mbp-m4-32b"

-----------------------------------------------------------------------------
\* The OpenAI-shaped SSE parser (src/backends/openai-backend.ts, parseSSEStream)

\* A body is a sequence of bytes. An ASCII character is one byte, written as
\* the character; the two bytes of U+00E9 are written "C3" and "A9", the
\* character itself "e'" and the replacement character U+FFFD "FFFD".

\* decoder.decode(value, { stream: true }): the text of the complete
\* characters, and the bytes of an incomplete one kept for the next call
decode(pending, value) ==
    LET bytes == pending \o value
        n == Len(bytes)
        paired(i) == bytes[i] = "C3" /\ i < n /\ bytes[i + 1] = "A9"
        consumed(i) == i > 1 /\ bytes[i] = "A9" /\ bytes[i - 1] = "C3"
        waits(i) == i = n /\ bytes[i] = "C3"
        kept == SelectSeq([i \in 1..n |-> i], LAMBDA i : ~consumed(i) /\ ~waits(i))
    IN  [text |-> [k \in 1..Len(kept) |->
                      IF paired(kept[k]) THEN "e'"
                      ELSE IF bytes[kept[k]] \in {"C3", "A9"} THEN "FFFD"
                      ELSE bytes[kept[k]]],
         pending |-> IF n > 0 /\ bytes[n] = "C3" THEN <<"C3">> ELSE <<>>]

\* text.split('\n')
splitLines(text) ==
    LET breaks == SelectSeq([i \in 1..Len(text) |-> i], LAMBDA i : text[i] = "\n")
        from(k) == IF k = 1 THEN 1 ELSE breaks[k - 1] + 1
        to(k) == IF k = Len(breaks) + 1 THEN Len(text) ELSE breaks[k] - 1
    IN  [k \in 1..(Len(breaks) + 1) |-> SubSeq(text, from(k), to(k))]

\* String.prototype.startsWith
startsWith(s, prefix) ==
    /\ Len(s) >= Len(prefix)
    /\ SubSeq(s, 1, Len(prefix)) = prefix

chars_dataPrefix == <<"d", "a", "t", "a", ":", " ">>
chars_DONE == <<"[", "D", "O", "N", "E", "]">>
chars_chunkA == <<"{", "\"", "a", "\"", ":", "1", "}">>
chars_chunkB == <<"{", "\"", "b", "\"", ":", "\"", "e'", "\"", "}">>
bytes_chunkB == <<"{", "\"", "b", "\"", ":", "\"", "C3", "A9", "\"", "}">>
chars_truncated == <<"{", "\"", "a", "\"", ":">>
chars_comment == <<":", " ", "p", "i", "n", "g">>

\* JSON.parse on the payloads met here: an object of the two above or a
\* number parses to a value (named by its text), any other text throws
jsonParses(data) ==
    \/ data \in {chars_chunkA, chars_chunkB}
    \/ /\ data # <<>>
       /\ \A i \in 1..Len(data) : data[i] \in {"0", "1", "2", "3", "4", "5", "6", "7", "8", "9"}

\* the for loop over the complete lines of one read: the chunks yielded, and
\* whether the generator returned on [DONE]
RECURSIVE forLines(_, _, _)
forLines(lines, i, yielded) ==
    IF i > Len(lines) THEN [yielded |-> yielded, returned |-> FALSE]
    ELSE LET trimmed == trim(lines[i])
             data == SubSeq(trimmed, 7, Len(trimmed))
         IN  IF trimmed = <<>> \/ startsWith(trimmed, <<":">>)
             THEN forLines(lines, i + 1, yielded)
             ELSE IF ~startsWith(trimmed, chars_dataPrefix)
             THEN forLines(lines, i + 1, yielded)
             ELSE IF data = chars_DONE
             THEN [yielded |-> yielded, returned |-> TRUE]
             ELSE IF jsonParses(data)
             THEN forLines(lines, i + 1, Append(yielded, data))
             ELSE forLines(lines, i + 1, yielded)

\* the generator's locals: the body it reads and how far, the decoder's
\* incomplete character, the buffer, and the chunks yielded so far
SseState(pc, upstream, body, pos, pending, buffer, yielded) ==
    [pc |-> pc, upstream |-> upstream, body |-> body, pos |-> pos, pending |-> pending,
     buffer |-> buffer, yielded |-> yielded]

\* one pass of the while loop that treats the last piece as a line too and
\* carries nothing over
readValue_NoCarry(p, value) ==
    LET decoded == decode(p.pending, value)
        lines == splitLines(decoded.text)
        after == forLines(lines, 1, p.yielded)
    IN  SseState(IF after.returned THEN "returned" ELSE "reading", p.upstream, p.body,
                 p.pos + Len(value), decoded.pending, <<>>, after.yielded)

\* one pass of the while loop for a read that returned value: buffer +=
\* decode(value); lines = buffer.split('\n'); buffer = lines.pop(); the for
\* loop over lines
readValue(p, value) ==
    LET decoded == decode(p.pending, value)
        lines == splitLines(p.buffer \o decoded.text)
        after == forLines(SubSeq(lines, 1, Len(lines) - 1), 1, p.yielded)
    IN  SseState(IF after.returned THEN "returned" ELSE "reading", p.upstream, p.body,
                 p.pos + Len(value), decoded.pending, lines[Len(lines)], after.yielded)

\* what an upstream sends, in bytes: lines, each ended by "\n", and a tail without one
Upstream(lines, tail) == [lines |-> lines, tail |-> tail]

RECURSIVE bodyOf(_, _)
bodyOf(lines, tail) ==
    IF lines = <<>> THEN tail
    ELSE Head(lines) \o <<"\n">> \o bodyOf(Tail(lines), tail)

\* the longest read the reader returns short of the whole rest of the body
MaxRead == 3

\* first a chunk (LF or CRLF) or a comment; then a chunk with a two-byte
\* character, the terminator, a payload that is not JSON, an empty line, a
\* number, or an event line; then a chunk or the terminator; and a tail: none,
\* a chunk with no newline after it, or the start of a line
Upstreams ==
    {Upstream(<<first, second, third>>, tail) :
        first \in {chars_dataPrefix \o chars_chunkA, chars_dataPrefix \o chars_chunkA \o <<"\r">>,
                   chars_comment},
        second \in {chars_dataPrefix \o bytes_chunkB, chars_dataPrefix \o chars_DONE,
                    chars_dataPrefix \o chars_truncated, <<>>,
                    chars_dataPrefix \o <<"1", "2">>, <<"e", "v", "e", "n", "t", ":", " ", "x">>},
        third \in {chars_dataPrefix \o chars_chunkA, chars_dataPrefix \o chars_DONE},
        tail \in {<<>>, chars_dataPrefix \o bytes_chunkB, <<"d", "a">>}}

\* parseSSEStream(response.body) is called and begins to read
OpenStream(upstream) ==
    /\ IsNull(sse)
    /\ sse' = Some(SseState("reading", upstream, bodyOf(upstream.lines, upstream.tail),
                            0, <<>>, <<>>, <<>>))
    /\ UNCHANGED <<models, provider_rate_limits, routing_policy, budget_tracking,
                   model_health_log, ruleVars, now, sel, req, disp, request_log, http, hc,
                   wire, stderr>>

\* reader.read() returns the next n bytes of the body
ReadValue(n) ==
    /\ ~IsNull(sse)
    /\ Val(sse).pc = "reading"
    /\ n >= 1
    /\ Val(sse).pos + n <= Len(Val(sse).body)
    /\ sse' = Some(readValue(Val(sse), SubSeq(Val(sse).body, Val(sse).pos + 1, Val(sse).pos + n)))
    /\ UNCHANGED <<models, provider_rate_limits, routing_policy, budget_tracking,
                   model_health_log, ruleVars, now, sel, req, disp, request_log, http, hc,
                   wire, stderr>>

\* reader.read() returns done: the loop breaks and the generator returns
ReadDone ==
    /\ ~IsNull(sse)
    /\ Val(sse).pc = "reading"
    /\ Val(sse).pos = Len(Val(sse).body)
    /\ sse' = Some([Val(sse) EXCEPT !.pc = "returned"])
    /\ UNCHANGED <<models, provider_rate_limits, routing_policy, budget_tracking,
                   model_health_log, ruleVars, now, sel, req, disp, request_log, http, hc,
                   wire, stderr>>

NextParse ==
    \/ \E upstream \in Upstreams : OpenStream(upstream)
    \/ \E n \in 1..MaxRead : ReadValue(n)
    \/ /\ ~IsNull(sse)
       /\ ReadValue(Len(Val(sse).body) - Val(sse).pos)
    \/ ReadDone

SpecParse == InitServe /\ [][NextParse]_vars

\* the parser's chunks had the bytes read so far come in one read
InOneRead(p) ==
    readValue(SseState("reading", p.upstream, p.body, 0, <<>>, <<>>, <<>>),
              SubSeq(p.body, 1, p.pos)).yielded

\* the text of a line of bytes, trimmed
TextOf(line) == trim(decode(<<>>, line).text)

IsDataLine(line) == startsWith(TextOf(line), chars_dataPrefix)
IsDoneLine(line) == TextOf(line) = chars_dataPrefix \o chars_DONE
Payload(line) == SubSeq(TextOf(line), 7, Len(TextOf(line)))

\* the newline-terminated lines before the first [DONE] line
BeforeDone(lines) ==
    IF \E i \in 1..Len(lines) : IsDoneLine(lines[i])
    THEN SubSeq(lines, 1, (CHOOSE i \in 1..Len(lines) :
                              /\ IsDoneLine(lines[i])
                              /\ \A j \in 1..(i - 1) : ~IsDoneLine(lines[j])) - 1)
    ELSE lines

\* C34, as the claim states it: when the generator has returned, it has
\* yielded one chunk per newline-terminated data line before [DONE].
C34_OneChunkPerDataLine ==
    (~IsNull(sse) /\ Val(sse).pc = "returned") =>
        Len(Val(sse).yielded)
           = Len(SelectSeq(BeforeDone(Val(sse).upstream.lines), IsDataLine))

\* C34, amended: whatever the reads, the chunks yielded are those of the same
\* bytes in one read; and when the generator has returned they are, in order,
\* the payloads of the newline-terminated data lines before [DONE] whose
\* payload is valid JSON, one chunk each: a data line whose payload does not
\* parse, a comment, an empty line and a tail without newline yield nothing.
C34_ChunksIndependentOfReads ==
    ~IsNull(sse) =>
        /\ Val(sse).yielded = InOneRead(Val(sse))
        /\ Val(sse).pc = "returned" =>
              LET lines == BeforeDone(Val(sse).upstream.lines)
                  parsed == SelectSeq(lines, LAMBDA l : IsDataLine(l) /\ jsonParses(Payload(l)))
              IN  Val(sse).yielded = [i \in 1..Len(parsed) |-> Payload(parsed[i])]

\* a chunk whose line was cut inside its two-byte character and inside its
\* 'data: ' prefix has been yielded once, after the first chunk
C34_Witness ==
    /\ ~IsNull(sse)
    /\ Val(sse).pc = "returned"
    /\ Val(sse).yielded = <<chars_chunkA, chars_chunkB, chars_chunkA>>
    /\ Val(sse).upstream.tail = <<"d", "a">>

-----------------------------------------------------------------------------
\* The shape of a routing decision

\* C35: a decision routeRequest returns has at least one candidate, its
\* first candidate has rank 1 and is the selected model, a decision of tier
\* 1 or 3 has exactly one candidate, and its classification is null exactly
\* when it is of tier 1.
C35_DecisionWellFormed ==
    (req # NoRequest /\ Val(req).pc = "returned") =>
        LET d == Val(Val(req).decision)
        IN  /\ d.tier_used \in {1, 2, 3}
            /\ Len(d.candidates) >= 1
            /\ d.candidates[1].rank = 1
            /\ d.candidates[1].model.model_id = d.selected_model
            /\ d.tier_used \in {1, 3} => Len(d.candidates) = 1
            /\ IsNull(d.classification) <=> d.tier_used = 1

\* a tier-2 decision with more than one candidate, ranked from 1
C35_Witness ==
    /\ req # NoRequest
    /\ Val(req).pc = "returned"
    /\ Val(Val(req).decision).tier_used = 2
    /\ Len(Val(Val(req).decision).candidates) >= 2
    /\ Val(Val(req).decision).candidates[2].rank = 2
    /\ ~IsNull(Val(Val(req).decision).classification)

\* a tier-3 decision: the fallback alone, with a classification
C35_WitnessTier3 ==
    /\ req # NoRequest
    /\ Val(req).pc = "returned"
    /\ Val(Val(req).decision).tier_used = 3
    /\ ~IsNull(Val(Val(req).decision).classification)

-----------------------------------------------------------------------------
\* The candidate list during one call of routeWithRetry

\* C36: the candidates of a call never change, and a step in which a
\* candidate fails is followed by the call of the next candidate of the list
\* (or by the throw after the last), whatever the catch block wrote about
\* that candidate's provider or model.
C36_CandidateListFixed ==
    [][(disp # NoDispatch /\ disp' # NoDispatch) =>
         /\ Val(disp').candidates = Val(disp).candidates
         /\ (/\ Val(disp).pc = "sending"
             /\ Len(Val(disp').outcomes) = Len(Val(disp).outcomes) + 1
             /\ ~Val(disp').outcomes[Len(Val(disp').outcomes)].ok)
            => IF Val(disp).index < Len(Val(disp).candidates)
               THEN /\ Val(disp').pc = "sending"
                    /\ Val(disp').index = Val(disp).index + 1
                    /\ Val(disp').calls = Append(Val(disp).calls, Val(disp).index + 1)
               ELSE /\ Val(disp').pc = "thrown"
                    /\ Val(disp').calls = Val(disp).calls
      ]_vars

\* the first candidate's failure has marked its provider rate-limited, and
\* the second candidate, of the same provider, is being called
C36_Witness ==
    /\ disp # NoDispatch
    /\ Val(disp).pc = "sending"
    /\ Val(disp).index = 2
    /\ Val(disp).candidates[1].model.provider = Val(disp).candidates[2].model.provider
    /\ Val(disp).candidates[2].model.provider \in DOMAIN provider_rate_limits
    /\ provider_rate_limits[Val(disp).candidates[2].model.provider].is_rate_limited
    /\ provider_rate_limits[Val(disp).candidates[2].model.provider].limited_since
          = Some(Val(disp).outcomes[1].at)

-----------------------------------------------------------------------------
\* The budget status view and the routing gate

\* getBudgetStatus(db): a missing row counts as a spend of 0
getBudgetStatus(policy, ledger, t) ==
    LET today == isoDate(t)
        month == isoMonth(today)
        dailySpend == IF <<"daily", today>> \in DOMAIN ledger
                      THEN ledger[<<"daily", today>>].total_spend ELSE 0
        monthlySpend == IF <<"monthly", month>> \in DOMAIN ledger
                        THEN ledger[<<"monthly", month>>].total_spend ELSE 0
    IN  [daily_spend |-> dailySpend,
         daily_limit |-> policy.budget_daily_usd,
         monthly_spend |-> monthlySpend,
         monthly_limit |-> policy.budget_monthly_usd,
         is_exceeded |-> \/ dailySpend >= policy.budget_daily_usd
                         \/ monthlySpend >= policy.budget_monthly_usd]

\* the seed's limits, a daily limit of 0 and a monthly limit of 0
StatusPolicies ==
    {SeedPolicy,
     PolicyRow(SeedLocationOrder, 5, 0, 200, Some("anthropic/claude-sonnet")),
     PolicyRow(SeedLocationOrder, 5, 10, 0, Some("anthropic/claude-sonnet"))}

InitStatus ==
    /\ now = StartTime
    /\ models = SeedModels
    /\ provider_rate_limits = SeedRateLimits
    /\ routing_policy \in StatusPolicies
    /\ budget_tracking \in BudgetLedgers(StartTime)
    /\ model_health_log = <<>>
    /\ routing_rules = SeedRules
    /\ rulesCache = EmptyCache
    /\ sel = Null
    /\ req = NoRequest
    /\ disp = NoDispatch
    /\ request_log = <<>>
    /\ http = <<>>
    /\ hc = Null
    /\ wire = NoWire
    /\ stderr = <<>>
    /\ sse = <<>>

SpecStatus == InitStatus /\ [][NextBudget]_vars

\* C37, as the claim states it: in every store state the status view's
\* is_exceeded equals the routing gate's isBudgetExceeded.
C37_StatusAgreesWithGate ==
    getBudgetStatus(routing_policy, budget_tracking, now).is_exceeded
        <=> isBudgetExceeded(routing_policy, budget_tracking, now)

-----------------------------------------------------------------------------
\* Requests answered before a backend is read (src/server.ts, chat-completions.ts)

\* the Authorization header the hook accepts for a key
bearer(key) == <<"Bearer", key>>

\* the onRequest hook of an authenticated route: 401 when a key is
\* configured and the header is missing or differs, otherwise the request
\* goes on to its handler
onRequest(apiKey, authorization) ==
    IF /\ truthy(apiKey)
       /\ \/ IsNull(authorization)
          \/ Val(authorization) # bearer(Val(apiKey))
    THEN Some(401)
    ELSE Null

\* the schema and the handler's first test: messages is required and not empty
validate(messages) ==
    IF IsNull(messages) \/ Val(messages) = <<>> THEN Some(400) ELSE Null

\* no key configured, or the key 'k'
ApiKeys == {Null, Some("k")}

\* no Authorization header, the key 'k' or the key 'x'
Authorizations == {Null, Some(bearer("k")), Some(bearer("x"))}

\* the hook replies 401
ReplyUnauthorized ==
    /\ req = NoRequest
    /\ http = <<>>
    /\ \E apiKey \in ApiKeys, authorization \in Authorizations :
          onRequest(apiKey, authorization) = Some(401)
    /\ http' = Append(http, Handler("done", Null, Null, FALSE, 0, 0, 0, Null, Some(401)))
    /\ wire' = handOver(wire)
    /\ UNCHANGED <<models, provider_rate_limits, routing_policy, budget_tracking,
                   model_health_log, ruleVars, now, sel, req, disp, request_log, hc,
                   stderr, sse>>

\* the request passes the hook and has no message: 400
ReplyInvalid ==
    /\ req = NoRequest
    /\ http = <<>>
    /\ \E apiKey \in ApiKeys, authorization \in Authorizations, messages \in {Null, Some(<<>>)} :
          /\ onRequest(apiKey, authorization) = Null
          /\ validate(messages) = Some(400)
    /\ http' = Append(http, Handler("done", Null, Null, FALSE, 0, 0, 0, Null, Some(400)))
    /\ wire' = handOver(wire)
    /\ UNCHANGED <<models, provider_rate_limits, routing_policy, budget_tracking,
                   model_health_log, ruleVars, now, sel, req, disp, request_log, hc,
                   stderr, sse>>

\* the request passes the hook and the validation, and is routed
Accepted(request) ==
    /\ http = <<>>
    /\ \E apiKey \in ApiKeys, authorization \in Authorizations :
          /\ onRequest(apiKey, authorization) = Null
          /\ validate(Some(request.messages)) = Null
    /\ RouteStart(request)

\* the seed's rules, or the heartbeat rule turned into a rejection
InitReplies ==
    /\ now = StartTime
    /\ models \in ServeModelTables
    /\ provider_rate_limits = SeedRateLimits
    /\ routing_policy = SeedPolicy
    /\ budget_tracking = ServeLedger(StartTime)
    /\ model_health_log = <<>>
    /\ routing_rules \in {SeedRules, [SeedRules EXCEPT ![1].target_action = "reject"]}
    /\ rulesCache = EmptyCache
    /\ sel = Null
    /\ req = NoRequest
    /\ disp = NoDispatch
    /\ request_log = <<>>
    /\ http = <<>>
    /\ hc = Null
    /\ wire = NoWire
    /\ stderr = <<>>
    /\ sse = <<>>

NextReplies ==
    \/ ReplyUnauthorized
    \/ ReplyInvalid
    \/ \E request \in CacheRequests : Accepted(request)
    \/ \E reply \in ServeReplies : RouteClassified(reply)
    \/ ReplyNoRoute
    \/ HandlerDispatches
    \/ SendSucceeds
    \/ SendFails
    \/ ReplyAllFailed
    \/ \E isStreaming \in BOOLEAN : HandlerReads(isStreaming)
    \/ \E k \in 1..Len(http) : \E usage \in ChunkUsages : StreamChunk(k, usage)
    \/ \E k \in 1..Len(http) : StreamEnds(k)
    \/ \E k \in 1..Len(http) : StreamRaises(k)

SpecReplies == InitReplies /\ [][NextReplies]_vars

\* the statuses of the replies sent before any backend is read
UnservedStatuses == {Some(400), Some(401), Some(503)}

\* C38: a step in which a request is answered 400, 401 or 503 leaves
\* request_log and budget_tracking as they were, and the log never has more
\* rows than there are requests answered otherwise.
C38_UnservedRequestsNotLogged ==
    [][/\ (/\ Len(http') = Len(http) + 1
           /\ http'[Len(http')].status \in UnservedStatuses)
          => /\ request_log' = request_log
             /\ budget_tracking' = budget_tracking
       /\ Len(request_log')
            <= Cardinality({k \in 1..Len(http') :
                               /\ http'[k].pc = "done"
                               /\ http'[k].status \notin UnservedStatuses})
      ]_vars

\* the heartbeat's only candidate failed: 503, no row, the ledger as at the start
C38_Witness ==
    /\ Len(http) = 1
    /\ http[1].status = Some(503)
    /\ ~IsNull(http[1].decision)
    /\ Val(http[1].decision).tier_used = 1
    /\ request_log = <<>>
    /\ budget_tracking = ServeLedger(StartTime)

\* a rule rejected the request: 503 with no decision
C38_WitnessReject ==
    /\ Len(http) = 1
    /\ http[1].status = Some(503)
    /\ IsNull(http[1].decision)
    /\ routing_rules[1].target_action = "reject"
    /\ request_log = <<>>

\* 401 and 400
C38_WitnessUnauthorized == Len(http) = 1 /\ http[1].status = Some(401) /\ request_log = <<>>
C38_WitnessInvalid == Len(http) = 1 /\ http[1].status = Some(400) /\ request_log = <<>>

-----------------------------------------------------------------------------
\* Tier-1 targets the selector would have filtered out

\* the seed's rules, or the heartbeat rule as a plain 'route' to a cloud model
Tier1RuleTables ==
    {SeedRules,
     [SeedRules EXCEPT ![1] =
         RoutingRule(1, 10, Some("heartbeat"), Null, Null, Null,
                     Some("anthropic/claude-sonnet"), "route")]}

\* the seed's registry, or one with a rule's target out of service
Tier1ModelTables ==
    {SeedModels,
     [SeedModels EXCEPT !["local/deepseek-r1-1.5b"].is_healthy = FALSE],
     [SeedModels EXCEPT !["local/deepseek-r1-1.5b"].is_enabled = FALSE],
     [SeedModels EXCEPT !["anthropic/claude-sonnet"].is_enabled = FALSE,
                        !["anthropic/claude-sonnet"].is_healthy = FALSE]}

\* no provider limited, or a target's provider limited until after the start
Tier1RateLimits ==
    {SeedRateLimits} \cup
    {[SeedRateLimits EXCEPT ![p] =
         RateLimitRow(TRUE, Some(StartTime - 58), Some(StartTime + 2))] :
       p \in {"deepseek", "anthropic"}}

\* no spend, or a day's spend at the daily limit
Tier1Ledgers ==
    {<<>>,
     (<<"daily", isoDate(StartTime)>> :> LedgerRow(10, 4))
        @@ (<<"monthly", isoMonth(isoDate(StartTime))>> :> LedgerRow(60, 9))}

\* a heartbeat and a /status command
Tier1Requests ==
    {ChatRequest(<<Message("user", Text(chars_ping, 0))>>, Some("heartbeat"), Null),
     ChatRequest(<<Message("user", Text(chars_status, 0))>>, Null, Null)}

InitTier1 ==
    /\ now = StartTime
    /\ routing_rules \in Tier1RuleTables
    /\ models \in Tier1ModelTables
    /\ provider_rate_limits \in Tier1RateLimits
    /\ routing_policy = SeedPolicy
    /\ budget_tracking \in Tier1Ledgers
    /\ model_health_log = <<>>
    /\ rulesCache = EmptyCache
    /\ sel = Null
    /\ req = NoRequest
    /\ disp = NoDispatch
    /\ request_log = <<>>
    /\ http = <<>>
    /\ hc = Null
    /\ wire = NoWire
    /\ stderr = <<>>
    /\ sse = <<>>

NextTier1 ==
    \/ \E request \in Tier1Requests : Accepted(request)
    \/ HandlerDispatches
    \/ SendSucceeds
    \/ SendFails
    \/ ReplyAllFailed
    \/ \E isStreaming \in BOOLEAN : HandlerReads(isStreaming)
    \/ \E k \in 1..Len(http) : \E usage \in ChunkUsages : StreamChunk(k, usage)
    \/ \E k \in 1..Len(http) : StreamEnds(k)
    \/ \E k \in 1..Len(http) : StreamRaises(k)

SpecTier1 == InitTier1 /\ [][NextTier1]_vars

\* the rule matched routes to a registered model
Tier1Targets(r) ==
    /\ r.tier1.matched
    /\ r.tier1.action \in {"route", "route_self"}
    /\ ~IsNull(r.tier1.target_model_id)
    /\ Val(r.tier1.target_model_id) \in DOMAIN models

\* the target of the rule is one the selector's filters would drop, or the
\* budget gate is closed
Tier1Filtered(target) ==
    \/ ~target.is_enabled
    \/ ~target.is_healthy
    \/ provider_rate_limits[target.provider].is_rate_limited
    \/ isBudgetExceeded(routing_policy, budget_tracking, now)
    \/ target.location = "cloud"

\* while routeRequest's result is held: a rule that routes to a registered
\* model gave the tier-1 decision with that model alone, and once that
\* candidate's call failed routeWithRetry has thrown
Tier1Held ==
    (req # NoRequest /\ Tier1Targets(Val(req))) =>
       LET r == Val(req)
       IN  /\ r.pc = "returned"
           /\ r.classifierCalls = 0
           /\ Val(r.decision).tier_used = 1
           /\ Val(r.decision).selected_model = Val(r.tier1.target_model_id)
           /\ Len(Val(r.decision).candidates) = 1
           /\ Val(r.decision).candidates[1].model.model_id = Val(r.tier1.target_model_id)
           /\ disp # NoDispatch =>
                 /\ Val(disp).candidates = Val(r.decision).candidates
                 /\ Val(disp).outcomes # <<>> =>
                       IF Val(disp).outcomes[1].ok
                       THEN Val(disp).pc = "returned"
                       ELSE /\ Val(disp).pc = "thrown"
                            /\ Len(Val(disp).outcomes) = 1

\* the handler's step after routeWithRetry threw is the 503 reply
Tier1Replies ==
    (IF disp # NoDispatch THEN Val(disp).pc = "thrown" ELSE FALSE)
       => /\ Len(http') = Len(http) + 1
          /\ http'[Len(http')].status = Some(503)
          /\ http'[Len(http')].pc = "done"
          /\ http'[Len(http')].decision = Val(req).decision

C39_WitnessCloud ==
    /\ req # NoRequest
    /\ Val(req).pc = "returned"
    /\ Val(Val(req).decision).selected_model = "anthropic/claude-sonnet"
    /\ Tier1Filtered(models["anthropic/claude-sonnet"])
    /\ ~models["anthropic/claude-sonnet"].is_enabled

-----------------------------------------------------------------------------
\* The fallback of a provider that is rate-limited

\* the seed's table, or one provider limited until two seconds after the start
FallbackRateLimits ==
    {SeedRateLimits} \cup
    {[SeedRateLimits EXCEPT ![p] =
         RateLimitRow(TRUE, Some(StartTime - 58), Some(StartTime + 2))] :
       p \in Providers}

\* every model in service, or a fallback out of service
FallbackModelTables ==
    {SeedModels,
     [SeedModels EXCEPT !["anthropic/claude-sonnet"].is_healthy = FALSE],
     [SeedModels EXCEPT !["lan/dgx-spark-70b"].is_enabled = FALSE]}

\* a short text and a text of 300000 characters
FallbackRequests ==
    {ChatRequest(<<Message("user", Text(chars_statusx, 0))>>, Null, Null),
     ChatRequest(<<Message("user", Text(chars_ping, 299996))>>, Null, Null)}

InitFallback ==
    /\ now = StartTime
    /\ routing_rules = SeedRules
    /\ models \in FallbackModelTables
    /\ provider_rate_limits \in FallbackRateLimits
    /\ routing_policy \in {PolicyRow(SeedLocationOrder, 5, 10, 200, f) : f \in FallbackIds}
    /\ budget_tracking \in Tier1Ledgers
    /\ model_health_log = <<>>
    /\ rulesCache = EmptyCache
    /\ sel = Null
    /\ req = NoRequest
    /\ disp = NoDispatch
    /\ request_log = <<>>
    /\ http = <<>>
    /\ hc = Null
    /\ wire = NoWire
    /\ stderr = <<>>
    /\ sse = <<>>

NextFallback ==
    \/ \E request \in FallbackRequests : RouteStart(request)
    \/ \E reply \in ClassifierReplies : RouteClassified(reply)
    \/ RouteEnd
    \/ \E d \in TickSteps : Tick(d)

SpecFallback == InitFallback /\ [][NextFallback]_vars

\* the policy names a registered model that is enabled and healthy
FallbackInService ==
    /\ ~IsNull(routing_policy.fallback_model_id)
    /\ Val(routing_policy.fallback_model_id) \in DOMAIN models
    /\ models[Val(routing_policy.fallback_model_id)].is_enabled
    /\ models[Val(routing_policy.fallback_model_id)].is_healthy

\* the provider's row is flagged and its retry_after is still ahead
LimitedAhead(provider) ==
    /\ provider_rate_limits[provider].is_rate_limited
    /\ ~IsNull(provider_rate_limits[provider].retry_after)
    /\ Val(provider_rate_limits[provider].retry_after) > now

\* C40: once the selector's list came back empty, the request gets the
\* tier-3 decision naming the fallback model exactly when that model is
\* registered, enabled and healthy: its provider's rate-limit row, its context
\* window, its capabilities and its quality have no part in it.
C40_FallbackReadsFlagsOnly ==
    (req # NoRequest /\ ~IsNull(Val(req).fallback)) =>
       LET r == Val(req)
       IN  IF FallbackInService
           THEN /\ r.pc = "returned"
                /\ Val(r.decision).tier_used = 3
                /\ Val(r.decision).selected_model = Val(routing_policy.fallback_model_id)
                /\ Val(r.decision).candidates =
                      <<RankedCandidate(models[Val(routing_policy.fallback_model_id)], 1)>>
           ELSE /\ r.pc = "thrown"
                /\ Val(r.fallback) = <<>>

\* a tier-3 decision names the cloud fallback while its provider is flagged
\* rate-limited with retry_after ahead
C40_Witness ==
    /\ req # NoRequest
    /\ Val(req).pc = "returned"
    /\ Val(Val(req).decision).tier_used = 3
    /\ Val(Val(req).decision).selected_model = "anthropic/claude-sonnet"
    /\ LimitedAhead("anthropic")

\* a tier-3 decision names a fallback whose context window is smaller than
\* the request's estimate
C40_WitnessContext ==
    /\ req # NoRequest
    /\ Val(req).pc = "returned"
    /\ Val(Val(req).decision).tier_used = 3
    /\ Val(Val(req).decision).candidates[1].model.context_window
          < Val(req).metadata.estimated_tokens

\* a tier-3 decision names a fallback below the request's quality floor
C40_WitnessQuality ==
    /\ req # NoRequest
    /\ Val(req).pc = "returned"
    /\ Val(Val(req).decision).tier_used = 3
    /\ Val(Val(req).decision).candidates[1].model.quality_score
          < mapClassificationToCriteria(Val(Val(req).classification)).quality_floor

====
